---- MODULE Spec2Model ----
(***************************************************************************)
(* Citability engine: the probing and scoring core.                        *)
(*                                                                         *)
(* One operation runs per behaviour.  StartX chooses the operation and its *)
(* inputs; the suspension points of the code (the awaited provider and     *)
(* store calls) separate the actions.  The external collaborators          *)
(* (queryLLM, detectCitation, canMakeRequest, prisma) are the environment: *)
(* their outcomes are chosen nondeterministically.                         *)
(*                                                                         *)
(* Numbers: percentages with one decimal are integers in tenths, keyword   *)
(* density (two decimals) is an integer in hundredths.  Math.round is      *)
(* round-half-up.  Within the bounds below IEEE doubles give the same      *)
(* values as this decimal arithmetic.                                      *)
(***************************************************************************)
EXTENDS Integers, Sequences, FiniteSets, TLC

VARIABLES
  op,             \* the entry point that is running ("idle" before any)
  pc,             \* its position
  enabled,        \* getEnabledProviders(): the providers with an API key
  providers,      \* the provider list the operation iterates over
  probeQueries,   \* number of queries / probes of the operation (1..n)
  competitors,    \* list of competitor names
  skipValidation, \* scoreContent's flag
  structural,     \* StructuralScore of scoreContent
  pending,        \* provider calls in flight (validateCitability's fan-out)
  probeResults,   \* results pushed so far, in completion order
  cursor,         \* <<probe index, provider index>> of the sequential loops
  available,      \* runBatchProbes: availableProviders of the current probe
  probeSucceeded, \* runBatchProbes probeSucceeded / runSingleProbe hasSuccess
  runs,           \* CitationRun rows: sequence of [probe, status, updates]
  stored,         \* CitationResult rows: set of [run, provider]
  batch,          \* runBatchProbes' BatchRunResult under construction
  issued,         \* history: <<probe, provider>> of every queryLLM call
  consulted,      \* history: <<probe, provider>> of every canMakeRequest call
  failed,         \* history: <<probe, provider>> of calls that threw
  vetoed,         \* history: <<probe, provider>> of calls the limiter vetoed
  citationValidation, \* what validateCitability returned
  outcome,        \* "none" | "returned" | "threw"
  result,         \* the value returned to the caller
  graph,          \* graphInstance: the KnowledgeGraph, its tables and flag
  calls,          \* graph calls in flight: their arguments, position, locals
  log,            \* history: the completed graph calls, in completion order
  content,        \* the content item and arguments given to a pure function
  settings,       \* aeo-settings.json merged over DEFAULT_SETTINGS
  page,           \* SettingsPage: the scoring weights of its state
  db,             \* prisma: Brand, Probe, CitationResult counts and the
                  \* MonitoringSchedule and Alert rows
  jobs            \* scheduler: the registry and the handlers in flight

vars == <<op, pc, enabled, providers, probeQueries, competitors,
          skipValidation, structural, pending, probeResults, cursor,
          available, probeSucceeded, runs, stored, batch, issued, consulted,
          failed, vetoed, citationValidation, outcome, result,
          graph, calls, log, content, settings, page, db, jobs>>

graphVars == <<graph, calls, log>>

appVars == <<settings, page, db, jobs>>

(***************************************************************************)
(* Bounds                                                                  *)
(***************************************************************************)
MaxQueries == 2       \* at most this many extracted queries / probes
MaxCalls == 4         \* at most this many calls in one concurrent fan-out
MaxCompetitors == 2   \* at most this many competitors in an operation

(***************************************************************************)
(* Program constants                                                       *)
(***************************************************************************)
ExtractLimit == 5         \* extractProbeQueries(content, keywords, 5)
ProbeProviderCount == 3   \* selectProbeProviders(3)
StructuralWeight == 2     \* weight 0.2, in tenths
CitationWeight == 5       \* weight 0.5, in tenths
CompetitiveWeight == 3    \* weight 0.3, in tenths
InsufficientDataScore == 50

Null == 0   \* position null (list positions are 1-based)
NoSentiment == "none"   \* sentiment null

AllProviders == {"google", "openai", "perplexity", "anthropic", "tavily"}
preferenceOrder == <<"google", "openai", "perplexity", "anthropic">>
CompetitorNames == <<"c1", "c2", "c3", "c4", "c5", "c6">>

(***************************************************************************)
(* Arithmetic helpers                                                      *)
(***************************************************************************)
Min(a, b) == IF a <= b THEN a ELSE b
Max(a, b) == IF a >= b THEN a ELSE b

\* Math.round(n / d) for d > 0: round half up (towards +infinity)
RoundDiv(n, d) == (2 * n + d) \div (2 * d)

\* Math.round(Math.min(100, Math.max(0, n / d)))
ClampRound(n, d) ==
  IF n <= 0 THEN 0 ELSE IF n >= 100 * d THEN 100 ELSE RoundDiv(n, d)

Range(s) == {s[i] : i \in 1..Len(s)}

RECURSIVE SumSeq(_)
SumSeq(s) == IF s = <<>> THEN 0 ELSE s[1] + SumSeq(Tail(s))

RECURSIVE FilterSeq(_, _)
FilterSeq(s, keep) ==
  IF s = <<>> THEN <<>>
  ELSE IF s[1] \in keep THEN <<s[1]>> \o FilterSeq(Tail(s), keep)
       ELSE FilterSeq(Tail(s), keep)

Count(s, P(_)) == Cardinality({i \in 1..Len(s) : P(s[i])})

(***************************************************************************)
(* calculateStructuralScore: the rubric over the extracted factors.        *)
(* keywordDensity is in hundredths of a percent, readabilityGrade in       *)
(* tenths of a grade.  The sum is kept in halves (a brand mention is worth *)
(* 2.5 points).                                                            *)
(***************************************************************************)
KeywordDensityPoints(kd) ==
  IF kd >= 100 /\ kd <= 300 THEN 10
  ELSE IF kd > 0 /\ kd < 100 THEN RoundDiv(kd, 10)
  ELSE IF kd > 300 /\ kd <= 500 THEN RoundDiv(1000 - 3 * (kd - 300), 100)
  ELSE 0

WordCountPoints(wc) ==
  IF wc >= 800 /\ wc <= 2000 THEN 15
  ELSE IF wc >= 500 /\ wc < 800 THEN RoundDiv(15 * wc, 800)
  ELSE IF wc > 2000 /\ wc <= 3000 THEN RoundDiv(1500 - (wc - 2000), 100)
  ELSE IF wc > 0 /\ wc < 500 THEN RoundDiv(15 * wc, 800)
  ELSE 0

ReadabilityPoints(rg) ==
  IF rg >= 80 /\ rg <= 120 THEN 10
  ELSE IF rg >= 50 /\ rg < 80 THEN RoundDiv(rg - 50, 3)
  ELSE IF rg > 120 /\ rg <= 160 THEN RoundDiv(40 - (rg - 120), 4)
  ELSE 0

calculateStructuralScore(f) ==
  LET halves ==
        2 * ( (IF f.hasSchemaMarkup THEN 15 ELSE 0)
            + (IF f.hasFaqSection THEN 10 ELSE 0)
            + Min(15, f.headingCount * 5)
            + (IF f.hasDirectAnswers THEN 15 ELSE 0)
            + (IF f.hasStructuredLists THEN 5 ELSE 0)
            + KeywordDensityPoints(f.keywordDensity)
            + WordCountPoints(f.wordCount)
            + ReadabilityPoints(f.readabilityGrade) )
        + Min(10, f.brandMentionCount * 5)
  IN [score |-> ClampRound(halves, 2), weight |-> StructuralWeight,
      factors |-> f]

(***************************************************************************)
(* selectProbeProviders(count): the first `count` enabled providers in the *)
(* cheapest-first preference order.                                        *)
(***************************************************************************)
selectProbeProviders(count, en) ==
  LET preferred == FilterSeq(preferenceOrder, en)
  IN SubSeq(preferred, 1, Min(count, Len(preferred)))

(***************************************************************************)
(* validateCitability, step 3: what one provider call pushes.              *)
(***************************************************************************)
\* the try branch: queryLLM answered and detectCitation returned d
ProbeResultOf(q, p, d) ==
  [query |-> q, provider |-> p, cited |-> d.cited, position |-> d.position,
   sentiment |-> d.sentiment, competitorsCited |-> d.competitorsMentioned]

\* the catch branch: "Provider failed for this query; record as not cited"
FailedProbeResult(q, p) ==
  [query |-> q, provider |-> p, cited |-> FALSE, position |-> Null,
   sentiment |-> NoSentiment, competitorsCited |-> {}]

(***************************************************************************)
(* validateCitability, step 4: the score of a non-empty result list.       *)
(***************************************************************************)
CitedCount(results) == Count(results, LAMBDA r : r.cited)

\* variant: only the result that was pushed first is looked at
SentimentBonusFirstPushed(results) ==
  IF Len(results) > 0 /\ results[1].cited
       /\ results[1].sentiment = "positive"
  THEN 10 ELSE 0

SentimentBonus(results) ==
  IF \E i \in 1..Len(results) :
       results[i].cited /\ results[i].sentiment = "positive"
  THEN 10 ELSE 0

\* variant: the null check on position is missing (null <= 3 holds in JS)
PositionBonusNoNullCheck(results) ==
  IF \E i \in 1..Len(results) :
       results[i].cited /\ results[i].position <= 3
  THEN 15 ELSE 0

PositionBonus(results) ==
  IF \E i \in 1..Len(results) :
       /\ results[i].cited
       /\ results[i].position # Null
       /\ results[i].position <= 3
  THEN 15 ELSE 0

MultiProviderBonus(results) ==
  IF \E i \in 1..Len(results) :
       /\ results[i].cited
       /\ Count(results,
                LAMBDA r : r.cited /\ r.query = results[i].query) >= 2
  THEN 10 ELSE 0

\* competitorCiteCounts: for every name that occurs in some competitorsCited
CompetitorCiteCount(results, c) ==
  Count(results, LAMBDA r : c \in r.competitorsCited)

CompetitorPenalty(results) ==
  LET named == UNION {results[i].competitorsCited : i \in 1..Len(results)}
  IN 10 * Cardinality({c \in named :
                         CompetitorCiteCount(results, c) > CitedCount(results)})

ValidationScore(results) ==
  LET total == Len(results)
      extra == SentimentBonus(results) + PositionBonus(results)
               + MultiProviderBonus(results) - CompetitorPenalty(results)
  IN IF total = 0 THEN 0
     ELSE ClampRound(100 * CitedCount(results) + extra * total, total)

CitationValidationOf(results) ==
  [score |-> ValidationScore(results), weight |-> CitationWeight,
   probeResults |-> results]

(***************************************************************************)
(* analyzeCompetitiveGap.  existing is a list of CitationResult records    *)
(* [brandCited, competitorsCited]; comps is the list of competitor names.  *)
(* Rates are percentages rounded to one decimal: integers in tenths.       *)
(***************************************************************************)
RateTenths(count, total) == RoundDiv(1000 * count, total)

\* variant: the gap is subtracted without the factor 1.5
GapScoreNoFactor(your, avg) ==
  IF avg <= your THEN 100
  ELSE Max(0, RoundDiv(1000 - (avg - your), 10))

GapScore(your, avg) ==
  IF avg <= your THEN 100
  ELSE Max(0, RoundDiv(2000 - 3 * (avg - your), 20))

analyzeCompetitiveGap(comps, existing) ==
  IF Len(existing) = 0
  THEN [score |-> InsufficientDataScore, weight |-> CompetitiveWeight,
        yourCitationRate |-> 0, avgCompetitorCitationRate |-> 0,
        topCompetitor |-> "null", topCompetitorRate |-> 0]
  ELSE
    LET n == Len(existing)
        your == RateTenths(Count(existing, LAMBDA r : r.brandCited), n)
        rate == [i \in 1..Len(comps) |->
                   RateTenths(Count(existing,
                                    LAMBDA r : comps[i] \in r.competitorsCited),
                              n)]
        avg == IF Len(comps) > 0 THEN RoundDiv(SumSeq(rate), Len(comps))
               ELSE 0
        \* stable sort by rate descending: the first of the highest rates
        top == IF Len(comps) = 0 THEN 0
               ELSE CHOOSE i \in 1..Len(comps) :
                      /\ \A j \in 1..Len(comps) : rate[j] <= rate[i]
                      /\ \A j \in 1..(i - 1) : rate[j] < rate[i]
    IN [score |-> GapScore(your, avg), weight |-> CompetitiveWeight,
        yourCitationRate |-> your, avgCompetitorCitationRate |-> avg,
        topCompetitor |-> IF top = 0 THEN "null" ELSE comps[top],
        topCompetitorRate |-> IF top = 0 THEN 0 ELSE rate[top]]

\* scoreContent step 3: the CitationResult list handed to the gap analysis
CitationResultsOf(results) ==
  [i \in 1..Len(results) |->
     [query |-> results[i].query, provider |-> results[i].provider,
      brandCited |-> results[i].cited,
      competitorsCited |-> results[i].competitorsCited]]

\* variant: the weighted sum is truncated instead of rounded
CompositeOverallFloor(s, c, g) ==
  (s.score * s.weight + c.score * c.weight + g.score * g.weight) \div 10

\* scoreContent step 4: Math.round(sum of score * weight), weights in tenths
CompositeOverall(s, c, g) ==
  RoundDiv(s.score * s.weight + c.score * c.weight + g.score * g.weight, 10)

(***************************************************************************)
(* Inputs                                                                  *)
(***************************************************************************)
\* the factors calculateStructuralScore extracts from a content body
FactorInputs ==
  { [hasSchemaMarkup |-> FALSE, hasFaqSection |-> FALSE, headingCount |-> 0,
     hasDirectAnswers |-> FALSE, hasStructuredLists |-> FALSE,
     keywordDensity |-> 0, brandMentionCount |-> 0, wordCount |-> 0,
     readabilityGrade |-> 0],
    [hasSchemaMarkup |-> FALSE, hasFaqSection |-> TRUE, headingCount |-> 1,
     hasDirectAnswers |-> FALSE, hasStructuredLists |-> TRUE,
     keywordDensity |-> 50, brandMentionCount |-> 1, wordCount |-> 600,
     readabilityGrade |-> 65],
    [hasSchemaMarkup |-> TRUE, hasFaqSection |-> TRUE, headingCount |-> 3,
     hasDirectAnswers |-> TRUE, hasStructuredLists |-> TRUE,
     keywordDensity |-> 200, brandMentionCount |-> 4, wordCount |-> 1000,
     readabilityGrade |-> 100] }

\* the sets getEnabledProviders() may return
EnabledSets ==
  { {}, {"tavily"}, {"openai"}, {"anthropic", "google"},
    {"google", "openai", "perplexity", "anthropic", "tavily"} }

\* getEnabledProviders() as a list
enabledList(en) ==
  FilterSeq(<<"openai", "anthropic", "google", "perplexity", "tavily">>, en)

\* the optional `providers` argument of the probing entry points
ProviderArgs ==
  { [given |-> FALSE, list |-> <<>>],
    [given |-> TRUE, list |-> <<>>],
    [given |-> TRUE, list |-> <<"openai">>],
    [given |-> TRUE, list |-> <<"openai", "anthropic">>] }

\* providers ?? getEnabledProviders()
activeProvidersOf(arg, en) == IF arg.given THEN arg.list ELSE enabledList(en)

CompetitorList(n) == SubSeq(CompetitorNames, 1, n)

\* what detectCitation may return for the brand, given the competitor list
Detections(comps) ==
  LET all == Range(comps)
      first == IF comps = <<>> THEN {} ELSE {comps[1]}
  IN { [cited |-> FALSE, position |-> Null, sentiment |-> NoSentiment,
        competitorsMentioned |-> {}],
       [cited |-> FALSE, position |-> Null, sentiment |-> NoSentiment,
        competitorsMentioned |-> all],
       [cited |-> TRUE, position |-> 1, sentiment |-> "positive",
        competitorsMentioned |-> {}],
       [cited |-> TRUE, position |-> Null, sentiment |-> "neutral",
        competitorsMentioned |-> first],
       [cited |-> TRUE, position |-> 5, sentiment |-> "negative",
        competitorsMentioned |-> all] }

Pairs(nq, ps) == (1..nq) \X Range(ps)

(***************************************************************************)
(* Initial state                                                           *)
(***************************************************************************)
NoResult == [kind |-> "none"]
NoStructural == [score |-> 0, weight |-> 0]
NoContent == [body |-> <<>>, schemaMarkup |-> "", keywords |-> <<>>,
              maxQueries |-> 0]
NoValidation == [score |-> 0, weight |-> 0, probeResults |-> <<>>]
NoBatch == [totalProbes |-> 0, completed |-> 0, failed |-> 0, skipped |-> 0,
            errors |-> {}]

\* new KnowledgeGraph(dbPath): no table has a row, init() has not run;
\* generated counts the identifiers made from Date.now() and Math.random()
EmptyGraph ==
  [initialized |-> FALSE, Entity |-> {}, Provider |-> {}, Query |-> {},
   Citation |-> {}, ALIAS_OF |-> {}, CITED_IN |-> {}, FROM_PROVIDER |-> {},
   FOR_QUERY |-> {}, COMPETES_WITH |-> {}, generated |-> 0]

GraphIdle ==
  /\ graph = EmptyGraph
  /\ calls = <<>>
  /\ log = <<>>

(***************************************************************************)
(* Settings, database and scheduler before any request                     *)
(***************************************************************************)
SettingsProviders == {"openai", "anthropic", "google", "perplexity"}

\* DEFAULT_SETTINGS: weights in hundredths; apiKeyFields holds what a
\* request body stored under the top-level keys openaiApiKey ...
DEFAULT_SETTINGS ==
  [providers |->
     [p \in SettingsProviders |-> [enabled |-> FALSE, apiKey |-> ""]],
   scoring |-> [structuralWeight |-> 20, citationWeight |-> 50,
                competitiveWeight |-> 30],
   general |-> [brandName |-> "", brandDomain |-> "",
                setupComplete |-> FALSE],
   apiKeyFields |-> [p \in SettingsProviders |-> ""]]

\* defaultSettings().scoring of the settings page
defaultSettings ==
  [structuralWeight |-> 40, citationWeight |-> 40, competitiveWeight |-> 20]

\* created counts the MonitoringSchedule ids the database has issued
EmptyDb ==
  [brands |-> 0, probes |-> 0, citationResults |-> 0, schedules |-> {},
   created |-> 0, alerts |-> <<>>]

\* registry: the entries of the jobs map, each with the meta object made
\* for it; running: the wrappedHandler executions in flight; metas counts
\* the meta objects made
NoJobs == [registry |-> {}, running |-> {}, metas |-> 0]

AppIdle ==
  /\ settings = DEFAULT_SETTINGS
  /\ page = defaultSettings
  /\ db = EmptyDb
  /\ jobs = NoJobs

Idle ==
  /\ pc = "idle"
  /\ enabled = {}
  /\ providers = <<>>
  /\ probeQueries = 0
  /\ competitors = <<>>
  /\ skipValidation = FALSE
  /\ structural = NoStructural
  /\ pending = {}
  /\ probeResults = <<>>
  /\ cursor = <<0, 0>>
  /\ available = <<>>
  /\ probeSucceeded = FALSE
  /\ runs = <<>>
  /\ stored = {}
  /\ batch = NoBatch
  /\ issued = {}
  /\ consulted = {}
  /\ failed = {}
  /\ vetoed = {}
  /\ citationValidation = NoValidation
  /\ outcome = "none"
  /\ result = NoResult
  /\ content = NoContent

Init == op = "idle" /\ Idle /\ GraphIdle /\ AppIdle

(***************************************************************************)
(* scoreContent, with validateCitability inlined at its call.              *)
(***************************************************************************)
\* variant: the early returns report the neutral score of the gap analysis
EmptyValidationNeutral ==
  [score |-> InsufficientDataScore, weight |-> CitationWeight,
   probeResults |-> <<>>]

\* the early returns of validateCitability and the skipValidation branch
EmptyValidation ==
  [score |-> 0, weight |-> CitationWeight, probeResults |-> <<>>]

\* steps 3-5 of scoreContent, once validateCitability has returned cv
AEOScoreOf(s, cv, comps) ==
  LET gap == analyzeCompetitiveGap(comps, CitationResultsOf(cv.probeResults))
  IN [kind |-> "AEOScore", overall |-> CompositeOverall(s, cv, gap),
      structural |-> s, citationValidation |-> cv, competitiveGap |-> gap]

\* scoreContent up to the first suspension: structural score, then either
\* the skip branch, an early return of validateCitability, or the fan-out
\* that issues every (query, provider) call before any of them completes
StartScoreContent ==
  /\ op = "idle"
  /\ \E f \in FactorInputs, skip \in BOOLEAN, en \in EnabledSets,
        nq \in 0..Min(MaxQueries, ExtractLimit), nc \in 0..MaxCompetitors :
       LET s == calculateStructuralScore(f)
           sel == selectProbeProviders(ProbeProviderCount, en)
           comps == CompetitorList(nc)
       IN /\ nq * Len(sel) <= MaxCalls
          /\ op' = "scoreContent"
          /\ structural' = s
          /\ skipValidation' = skip
          /\ enabled' = en
          /\ competitors' = comps
          /\ IF skip
             THEN /\ probeQueries' = 0
                  /\ providers' = <<>>
                  /\ citationValidation' = EmptyValidation
                  /\ result' = AEOScoreOf(s, EmptyValidation, comps)
                  /\ outcome' = "returned"
                  /\ pc' = "done"
                  /\ UNCHANGED <<pending, issued>>
             ELSE IF nq = 0
             THEN /\ probeQueries' = 0
                  /\ providers' = <<>>
                  /\ citationValidation' = EmptyValidation
                  /\ result' = AEOScoreOf(s, EmptyValidation, comps)
                  /\ outcome' = "returned"
                  /\ pc' = "done"
                  /\ UNCHANGED <<pending, issued>>
             ELSE IF Len(sel) = 0
             THEN /\ probeQueries' = nq
                  /\ providers' = sel
                  /\ citationValidation' = EmptyValidation
                  /\ result' = AEOScoreOf(s, EmptyValidation, comps)
                  /\ outcome' = "returned"
                  /\ pc' = "done"
                  /\ UNCHANGED <<pending, issued>>
             ELSE /\ probeQueries' = nq
                  /\ providers' = sel
                  /\ pending' = Pairs(nq, sel)
                  /\ issued' = Pairs(nq, sel)
                  /\ pc' = "probing"
                  /\ UNCHANGED <<citationValidation, result, outcome>>
  /\ UNCHANGED <<graphVars, content, appVars>>
  /\ UNCHANGED <<probeResults, cursor, available, probeSucceeded, runs,
                 stored, batch, consulted, failed, vetoed>>

\* one call of the fan-out resolves: queryLLM answered, detectCitation ran
ProviderRespond(q, p) ==
  /\ op = "scoreContent" /\ pc = "probing"
  /\ <<q, p>> \in pending
  /\ \E d \in Detections(competitors) :
       probeResults' = Append(probeResults, ProbeResultOf(q, p, d))
  /\ pending' = pending \ {<<q, p>>}
  /\ UNCHANGED <<graphVars, content, appVars>>
  /\ UNCHANGED <<op, pc, enabled, providers, probeQueries, competitors,
                 skipValidation, structural, cursor, available,
                 probeSucceeded, runs, stored, batch, issued, consulted,
                 failed, vetoed, citationValidation, outcome, result>>

\* variant: no try/catch around the call, the rejection reaches Promise.all
ProviderFailRejects(q, p) ==
  /\ op = "scoreContent" /\ pc = "probing"
  /\ <<q, p>> \in pending
  /\ pending' = pending \ {<<q, p>>}
  /\ failed' = failed \cup {<<q, p>>}
  /\ outcome' = "threw"
  /\ result' = [kind |-> "Error", error |-> "ProviderFailure"]
  /\ pc' = "done"
  /\ UNCHANGED <<graphVars, content, appVars>>
  /\ UNCHANGED <<op, enabled, providers, probeQueries, competitors,
                 skipValidation, structural, probeResults, cursor, available,
                 probeSucceeded, runs, stored, batch, issued, consulted,
                 vetoed, citationValidation>>

\* one call of the fan-out throws (queryLLM rejects or detectCitation
\* throws): the catch block pushes the not-cited record
ProviderFail(q, p) ==
  /\ op = "scoreContent" /\ pc = "probing"
  /\ <<q, p>> \in pending
  /\ probeResults' = Append(probeResults, FailedProbeResult(q, p))
  /\ pending' = pending \ {<<q, p>>}
  /\ failed' = failed \cup {<<q, p>>}
  /\ UNCHANGED <<graphVars, content, appVars>>
  /\ UNCHANGED <<op, pc, enabled, providers, probeQueries, competitors,
                 skipValidation, structural, cursor, available,
                 probeSucceeded, runs, stored, batch, issued, consulted,
                 vetoed, citationValidation, outcome, result>>

\* Promise.all resolved: validateCitability scores, scoreContent finishes
FinishScoreContent ==
  /\ op = "scoreContent" /\ pc = "probing"
  /\ pending = {}
  /\ LET cv == IF Len(probeResults) = 0
               THEN [score |-> 0, weight |-> CitationWeight,
                     probeResults |-> probeResults]
               ELSE CitationValidationOf(probeResults)
     IN /\ citationValidation' = cv
        /\ result' = AEOScoreOf(structural, cv, competitors)
  /\ outcome' = "returned"
  /\ pc' = "done"
  /\ UNCHANGED <<graphVars, content, appVars>>
  /\ UNCHANGED <<op, enabled, providers, probeQueries, competitors,
                 skipValidation, structural, pending, probeResults, cursor,
                 available, probeSucceeded, runs, stored, batch, issued,
                 consulted, failed, vetoed>>

ScoreContent ==
  \/ StartScoreContent
  \/ \E q \in 1..MaxQueries + 1, p \in AllProviders : ProviderRespond(q, p)
  \/ \E q \in 1..MaxQueries + 1, p \in AllProviders : ProviderFail(q, p)
  \/ FinishScoreContent

(***************************************************************************)
(* runCompetitiveAnalysis: a sequential loop, one awaited queryLLM call    *)
(* per (probe, provider); nothing catches a rejection.                     *)
(***************************************************************************)
\* what the detections of one response amount to: the brand's citation
\* and the competitors whose own detectCitation reports a citation
AnalysisDetections(comps) ==
  [brandCited : BOOLEAN, competitorsCited : SUBSET Range(comps)]

\* the next (probe, provider) of the nested for loops; <<0, 0>> at the end
NextPair(c, nq, np) ==
  IF c[2] < np THEN <<c[1], c[2] + 1>>
  ELSE IF c[1] < nq THEN <<c[1] + 1, 1>>
  ELSE <<0, 0>>

\* brandCitationRate and the CompetitiveAnalysis built from allResults
CompetitiveAnalysisOf(results) ==
  [kind |-> "CompetitiveAnalysis",
   brandCitationRate |->
     IF Len(results) > 0
     THEN RoundDiv(100 * Count(results, LAMBDA r : r.brandCited),
                   Len(results))
     ELSE 0,
   probed |-> {<<results[i].query, results[i].provider>> :
                 i \in 1..Len(results)}]

NoProvidersError == [kind |-> "Error", error |-> "NoProvidersEnabled"]

StartCompetitiveAnalysis ==
  /\ op = "idle"
  /\ \E arg \in ProviderArgs, en \in EnabledSets, nq \in 0..MaxQueries,
        nc \in 0..MaxCompetitors :
       LET active == activeProvidersOf(arg, en)
       IN /\ nq * Len(active) <= MaxCalls
          /\ op' = "runCompetitiveAnalysis"
          /\ enabled' = en
          /\ providers' = active
          /\ probeQueries' = nq
          /\ competitors' = CompetitorList(nc)
          /\ IF Len(active) = 0
             THEN /\ outcome' = "threw"
                  /\ result' = NoProvidersError
                  /\ pc' = "done"
                  /\ UNCHANGED <<cursor, issued>>
             ELSE IF nq = 0
             THEN /\ outcome' = "returned"
                  /\ result' = CompetitiveAnalysisOf(<<>>)
                  /\ pc' = "done"
                  /\ UNCHANGED <<cursor, issued>>
             ELSE /\ cursor' = <<1, 1>>
                  /\ issued' = {<<1, active[1]>>}
                  /\ pc' = "awaiting"
                  /\ UNCHANGED <<outcome, result>>
  /\ UNCHANGED <<graphVars, content, appVars>>
  /\ UNCHANGED <<skipValidation, structural, pending, probeResults,
                 available, probeSucceeded, runs, stored, batch, consulted,
                 failed, vetoed, citationValidation>>

\* the awaited call answers: detect, push, and issue the next call or finish
AnalysisRespond ==
  /\ op = "runCompetitiveAnalysis" /\ pc = "awaiting"
  /\ \E d \in AnalysisDetections(competitors) :
       LET pushed == Append(probeResults,
                            [query |-> cursor[1],
                             provider |-> providers[cursor[2]],
                             brandCited |-> d.brandCited,
                             competitorsCited |-> d.competitorsCited])
           nxt == NextPair(cursor, probeQueries, Len(providers))
       IN /\ probeResults' = pushed
          /\ cursor' = nxt
          /\ IF nxt = <<0, 0>>
             THEN /\ outcome' = "returned"
                  /\ result' = CompetitiveAnalysisOf(pushed)
                  /\ pc' = "done"
                  /\ UNCHANGED issued
             ELSE /\ issued' = issued \cup {<<nxt[1], providers[nxt[2]]>>}
                  /\ UNCHANGED <<outcome, result, pc>>
  /\ UNCHANGED <<graphVars, content, appVars>>
  /\ UNCHANGED <<op, enabled, providers, probeQueries, competitors,
                 skipValidation, structural, pending, available,
                 probeSucceeded, runs, stored, batch, consulted, failed,
                 vetoed, citationValidation>>

\* the awaited call rejects: the rejection leaves runCompetitiveAnalysis
AnalysisReject ==
  /\ op = "runCompetitiveAnalysis" /\ pc = "awaiting"
  /\ failed' = failed \cup {<<cursor[1], providers[cursor[2]]>>}
  /\ outcome' = "threw"
  /\ result' = [kind |-> "Error", error |-> "ProviderFailure"]
  /\ pc' = "done"
  /\ UNCHANGED <<graphVars, content, appVars>>
  /\ UNCHANGED <<op, enabled, providers, probeQueries, competitors,
                 skipValidation, structural, pending, probeResults, cursor,
                 available, probeSucceeded, runs, stored, batch, issued,
                 consulted, vetoed, citationValidation>>

CompetitiveAnalysis ==
  \/ StartCompetitiveAnalysis
  \/ AnalysisRespond
  \/ AnalysisReject

(***************************************************************************)
(* executeProbeForProvider: how one call of the probe runner may end.      *)
(*   ok        every awaited call succeeded                                *)
(*   llmFail   queryLLM rejected (or JSON.parse / detectCitation threw)    *)
(*   storeFail prisma.citationResult.create rejected                       *)
(*   logFail   prisma.apiUsageLog.create rejected, after the result row    *)
(*             was written                                                 *)
(***************************************************************************)
ExecuteOutcomes == {"ok", "llmFail", "storeFail", "logFail"}

\* the CitationResult rows after executeProbeForProvider ended with o
StoredAfter(rows, run, p, o) ==
  IF o \in {"ok", "logFail"} THEN rows \cup {[run |-> run, provider |-> p]}
  ELSE rows

(***************************************************************************)
(* runSingleProbe                                                          *)
(***************************************************************************)
StartSingleProbe ==
  /\ op = "idle"
  /\ \E found \in BOOLEAN, arg \in ProviderArgs, en \in EnabledSets :
       LET active == activeProvidersOf(arg, en)
       IN /\ Len(active) <= MaxCalls
          /\ op' = "runSingleProbe"
          /\ enabled' = en
          /\ IF ~found
             THEN /\ outcome' = "threw"
                  /\ result' = [kind |-> "Error", error |-> "ProbeNotFound"]
                  /\ pc' = "done"
                  /\ UNCHANGED <<providers, probeQueries, runs, cursor>>
             ELSE IF Len(active) = 0
             THEN /\ providers' = active
                  /\ probeQueries' = 1
                  /\ outcome' = "threw"
                  /\ result' = NoProvidersError
                  /\ pc' = "done"
                  /\ UNCHANGED <<runs, cursor>>
             ELSE /\ providers' = active
                  /\ probeQueries' = 1
                  /\ runs' = <<[probe |-> 1, status |-> "running",
                                updates |-> 0]>>
                  /\ cursor' = <<1, 1>>
                  /\ pc' = "loop"
                  /\ UNCHANGED <<outcome, result>>
  /\ UNCHANGED <<graphVars, content, appVars>>
  /\ UNCHANGED <<competitors, skipValidation, structural, pending,
                 probeResults, available, probeSucceeded, stored, batch,
                 issued, consulted, failed, vetoed, citationValidation>>

\* one iteration of the provider loop: consult the limiter, then either
\* skip the provider or run executeProbeForProvider inside try/catch
SingleProbeStep ==
  /\ op = "runSingleProbe" /\ pc = "loop"
  /\ LET p == providers[cursor[2]]
         pair == <<1, p>>
     IN /\ consulted' = consulted \cup {pair}
        /\ \/ /\ vetoed' = vetoed \cup {pair}
              /\ UNCHANGED <<issued, failed, stored, probeSucceeded,
                             probeResults>>
           \/ \E o \in ExecuteOutcomes :
                /\ issued' = issued \cup {pair}
                /\ stored' = StoredAfter(stored, 1, p, o)
                /\ IF o = "ok"
                   THEN /\ probeSucceeded' = TRUE
                        /\ probeResults' = Append(probeResults, pair)
                        /\ UNCHANGED failed
                   ELSE /\ failed' = failed \cup {pair}
                        /\ UNCHANGED <<probeSucceeded, probeResults>>
                /\ UNCHANGED vetoed
  /\ IF cursor[2] < Len(providers)
     THEN cursor' = <<1, cursor[2] + 1>> /\ UNCHANGED pc
     ELSE pc' = "update" /\ UNCHANGED cursor
  /\ UNCHANGED <<graphVars, content, appVars>>
  /\ UNCHANGED <<op, enabled, providers, probeQueries, competitors,
                 skipValidation, structural, pending, available, runs,
                 batch, citationValidation, outcome, result>>

\* the run's final status, the (caught) alert checks, and the return value
FinishSingleProbe ==
  /\ op = "runSingleProbe" /\ pc = "update"
  /\ runs' = [runs EXCEPT ![1] =
                [probe |-> 1,
                 status |-> IF probeSucceeded THEN "completed" ELSE "failed",
                 updates |-> @.updates + 1]]
  /\ result' = [kind |-> "SingleProbe", runId |-> 1,
                results |-> Len(probeResults), cost |-> Len(probeResults)]
  /\ outcome' = "returned"
  /\ pc' = "done"
  /\ UNCHANGED <<graphVars, content, appVars>>
  /\ UNCHANGED <<op, enabled, providers, probeQueries, competitors,
                 skipValidation, structural, pending, probeResults, cursor,
                 available, probeSucceeded, stored, batch, issued, consulted,
                 failed, vetoed, citationValidation>>

SingleProbe ==
  \/ StartSingleProbe
  \/ SingleProbeStep
  \/ FinishSingleProbe

(***************************************************************************)
(* runBatchProbes                                                          *)
(***************************************************************************)
BatchResultOf(b) ==
  [kind |-> "BatchRunResult", totalProbes |-> b.totalProbes,
   completed |-> b.completed, failed |-> b.failed, skipped |-> b.skipped,
   errors |-> b.errors]

StartBatchProbes ==
  /\ op = "idle"
  /\ \E arg \in ProviderArgs, en \in EnabledSets, np \in 0..MaxQueries :
       LET active == activeProvidersOf(arg, en)
           b == [NoBatch EXCEPT !.totalProbes = np]
       IN /\ np * Len(active) <= MaxCalls
          /\ op' = "runBatchProbes"
          /\ enabled' = en
          /\ providers' = active
          /\ probeQueries' = np
          /\ batch' = b
          /\ IF Len(active) = 0
             THEN /\ outcome' = "returned"
                  /\ result' = BatchResultOf(b)
                  /\ pc' = "done"
                  /\ UNCHANGED cursor
             ELSE IF np = 0
             THEN /\ pc' = "finish"
                  /\ UNCHANGED <<cursor, outcome, result>>
             ELSE /\ cursor' = <<1, 0>>
                  /\ pc' = "probe"
                  /\ UNCHANGED <<outcome, result>>
  /\ UNCHANGED <<graphVars, content, appVars>>
  /\ UNCHANGED <<competitors, skipValidation, structural, pending,
                 probeResults, available, probeSucceeded, runs, stored,
                 issued, consulted, failed, vetoed, citationValidation>>

\* top of the probe loop: filter the providers through canMakeRequest, skip
\* the probe when none is left, otherwise create its CitationRun
BatchBeginProbe ==
  /\ op = "runBatchProbes" /\ pc = "probe"
  /\ \E allowed \in SUBSET Range(providers) :
       LET i == cursor[1]
           avail == FilterSeq(providers, allowed)
       IN /\ consulted' = consulted \cup {<<i, p>> : p \in Range(providers)}
          /\ vetoed' = vetoed \cup {<<i, p>> : p \in Range(providers) \ allowed}
          /\ available' = avail
          /\ IF Len(avail) = 0
             THEN /\ batch' = [batch EXCEPT !.skipped = @ + 1]
                  /\ IF i < probeQueries
                     THEN cursor' = <<i + 1, 0>> /\ UNCHANGED pc
                     ELSE pc' = "finish" /\ UNCHANGED cursor
                  /\ UNCHANGED <<runs, probeSucceeded>>
             ELSE /\ runs' = Append(runs, [probe |-> i, status |-> "running",
                                           updates |-> 0])
                  /\ probeSucceeded' = FALSE
                  /\ cursor' = <<i, 1>>
                  /\ pc' = "calls"
                  /\ UNCHANGED batch
  /\ UNCHANGED <<graphVars, content, appVars>>
  /\ UNCHANGED <<op, enabled, providers, probeQueries, competitors,
                 skipValidation, structural, pending, probeResults, stored,
                 issued, failed, citationValidation, outcome, result>>

\* one iteration of the provider loop: re-check the limiter, then either
\* skip the provider or run executeProbeForProvider inside try/catch
BatchCall ==
  /\ op = "runBatchProbes" /\ pc = "calls"
  /\ LET p == available[cursor[2]]
         pair == <<cursor[1], p>>
     IN \/ /\ vetoed' = vetoed \cup {pair}
           /\ UNCHANGED <<issued, failed, stored, probeSucceeded, batch>>
        \/ \E o \in ExecuteOutcomes :
             /\ issued' = issued \cup {pair}
             /\ stored' = StoredAfter(stored, Len(runs), p, o)
             /\ IF o = "ok"
                THEN /\ probeSucceeded' = TRUE
                     /\ UNCHANGED <<failed, batch>>
                ELSE /\ failed' = failed \cup {pair}
                     /\ batch' = [batch EXCEPT !.errors = @ \cup {pair}]
                     /\ UNCHANGED probeSucceeded
             /\ UNCHANGED vetoed
  /\ IF cursor[2] < Len(available)
     THEN cursor' = <<cursor[1], cursor[2] + 1>> /\ UNCHANGED pc
     ELSE pc' = "update" /\ UNCHANGED cursor
  /\ UNCHANGED <<graphVars, content, appVars>>
  /\ UNCHANGED <<op, enabled, providers, probeQueries, competitors,
                 skipValidation, structural, pending, probeResults,
                 available, runs, consulted, citationValidation, outcome,
                 result>>

\* bottom of the probe loop: the run's final status and the counters
BatchEndProbe ==
  /\ op = "runBatchProbes" /\ pc = "update"
  /\ runs' = [runs EXCEPT ![Len(runs)] =
                [probe |-> @.probe,
                 status |-> IF probeSucceeded THEN "completed" ELSE "failed",
                 updates |-> @.updates + 1]]
  /\ batch' = IF probeSucceeded
              THEN [batch EXCEPT !.completed = @ + 1]
              ELSE [batch EXCEPT !.failed = @ + 1]
  /\ IF cursor[1] < probeQueries
     THEN cursor' = <<cursor[1] + 1, 0>> /\ pc' = "probe"
     ELSE pc' = "finish" /\ UNCHANGED cursor
  /\ UNCHANGED <<graphVars, content, appVars>>
  /\ UNCHANGED <<op, enabled, providers, probeQueries, competitors,
                 skipValidation, structural, pending, probeResults,
                 available, probeSucceeded, stored, issued, consulted,
                 failed, vetoed, citationValidation, outcome, result>>

\* after the loop: the (caught) alert checks, then the result is returned
FinishBatchProbes ==
  /\ op = "runBatchProbes" /\ pc = "finish"
  /\ result' = BatchResultOf(batch)
  /\ outcome' = "returned"
  /\ pc' = "done"
  /\ UNCHANGED <<graphVars, content, appVars>>
  /\ UNCHANGED <<op, enabled, providers, probeQueries, competitors,
                 skipValidation, structural, pending, probeResults, cursor,
                 available, probeSucceeded, runs, stored, batch, issued,
                 consulted, failed, vetoed, citationValidation>>

BatchProbes ==
  \/ StartBatchProbes
  \/ BatchBeginProbe
  \/ BatchCall
  \/ BatchEndProbe
  \/ FinishBatchProbes

Next ==
  \/ ScoreContent
  \/ CompetitiveAnalysis
  \/ SingleProbe
  \/ BatchProbes

Spec == Init /\ [][Next]_vars

(***************************************************************************)
(* analyzeCompetitiveGap as a function of its arguments: the initial state *)
(* holds a competitor list and a list of existing CitationResults, the one *)
(* action applies the function.                                            *)
(***************************************************************************)
MaxGapResults == 5       \* at most this many existing results
MaxGapCompetitors == 4   \* at most this many competitors

\* a list of n CitationResults in which the brand is cited b times and
\* competitor j is cited cs[j] times, the citations of different
\* competitors starting at different results
GapResults(comps, n, b, cs) ==
  [i \in 1..n |->
     [brandCited |-> i <= b,
      competitorsCited |->
        {comps[j] : j \in {k \in 1..Len(comps) : (i - 1 - k) % n < cs[k]}}]]

InitGap ==
  /\ op = "analyzeCompetitiveGap"
  /\ pc = "call"
  /\ \E nc \in 0..MaxGapCompetitors, n \in 0..MaxGapResults :
       /\ competitors = CompetitorList(nc)
       /\ \E b \in 0..n, cs \in [1..nc -> 0..n] :
            probeResults = GapResults(CompetitorList(nc), n, b, cs)
  /\ enabled = {}
  /\ providers = <<>>
  /\ probeQueries = 0
  /\ skipValidation = FALSE
  /\ structural = NoStructural
  /\ pending = {}
  /\ cursor = <<0, 0>>
  /\ available = <<>>
  /\ probeSucceeded = FALSE
  /\ runs = <<>>
  /\ stored = {}
  /\ batch = NoBatch
  /\ issued = {}
  /\ consulted = {}
  /\ failed = {}
  /\ vetoed = {}
  /\ citationValidation = NoValidation
  /\ outcome = "none"
  /\ result = NoResult
  /\ content = NoContent
  /\ GraphIdle
  /\ AppIdle

ApplyCompetitiveGap ==
  /\ op = "analyzeCompetitiveGap" /\ pc = "call"
  /\ result' = analyzeCompetitiveGap(competitors, probeResults)
  /\ outcome' = "returned"
  /\ pc' = "done"
  /\ UNCHANGED <<graphVars, content, appVars>>
  /\ UNCHANGED <<op, enabled, providers, probeQueries, competitors,
                 skipValidation, structural, pending, probeResults, cursor,
                 available, probeSucceeded, runs, stored, batch, issued,
                 consulted, failed, vetoed, citationValidation>>

NextGap == ApplyCompetitiveGap

SpecGap == InitGap /\ [][NextGap]_vars

(***************************************************************************)
(* Properties                                                              *)
(***************************************************************************)
ResultPairs(rs) == {<<rs[i].query, rs[i].provider>> : i \in 1..Len(rs)}

\* validateCitability got past its early returns and fanned out
FannedOut ==
  /\ op = "scoreContent"
  /\ ~skipValidation
  /\ probeQueries > 0
  /\ providers # <<>>

\* C1: in validateCitability every (query, provider) call is issued whatever
\* subset of the calls fails, a failure cancels no sibling (every call is
\* either still in flight or has pushed its result), and the function
\* returns a CitationValidationScore over all the pairs instead of rejecting.
C1_FailuresIsolated ==
  FannedOut =>
    /\ issued = Pairs(probeQueries, providers)
    /\ pending \cup ResultPairs(probeResults) = Pairs(probeQueries, providers)
    /\ outcome # "threw"
    /\ pc = "done" =>
         /\ outcome = "returned"
         /\ Len(citationValidation.probeResults)
              = probeQueries * Len(providers)
         /\ ResultPairs(citationValidation.probeResults)
              = Pairs(probeQueries, providers)

\* some calls failed, some did not, and validateCitability returned
C1_Witness ==
  /\ FannedOut
  /\ pc = "done"
  /\ outcome = "returned"
  /\ failed # {}
  /\ failed # issued
  /\ Len(citationValidation.probeResults) > Cardinality(failed)

\* C2 (as claimed): a failing provider call never aborts
\* runCompetitiveAnalysis: every (query, provider) pair is probed and a
\* CompetitiveAnalysis is returned.
C2_AnalysisSurvivesFailure ==
  (op = "runCompetitiveAnalysis" /\ pc = "done" /\ providers # <<>>) =>
    /\ outcome = "returned"
    /\ issued = Pairs(probeQueries, providers)

\* C3 (as claimed): every probing entry point fails explicitly when the
\* active provider set is empty, before any provider call and before any
\* CitationRun is created.
C3_NoProvidersIsAnError ==
  ( /\ op \in {"runCompetitiveAnalysis", "runSingleProbe", "runBatchProbes"}
    /\ pc = "done"
    /\ providers = <<>> ) =>
    /\ outcome = "threw"
    /\ issued = {}
    /\ runs = <<>>

\* the (query, provider) pairs a returned result marks as having produced
\* no data: an entry of probeResults that no successful response could have
\* produced, an entry of BatchRunResult.errors; runSingleProbe's result has
\* no per-provider field
FailuresReported ==
  IF op = "scoreContent"
  THEN {<<r.query, r.provider>> : r \in
          {r \in Range(result.citationValidation.probeResults) :
             \A d \in Detections(competitors) :
               r # ProbeResultOf(r.query, r.provider, d)}}
  ELSE IF op = "runBatchProbes" THEN result.errors
  ELSE {}

\* C4 (as claimed): a returned result accounts for exactly the
\* (query, provider) pairs that failed or were vetoed, so a failed call can
\* be told from a response that did not cite the brand.
C4_FailuresAccounted ==
  ( /\ op \in {"scoreContent", "runSingleProbe", "runBatchProbes"}
    /\ outcome = "returned" ) =>
    FailuresReported = failed \cup vetoed

\* C5 (as claimed): every provider call is preceded by a consult of the
\* rate limiter for that call, and a vetoed call is not issued.
C5_LimiterConsulted ==
  /\ issued \subseteq consulted
  /\ issued \cap vetoed = {}

ClaimedValidationScore(rs, comps) ==
  LET total == Len(rs)
      cited == {i \in 1..total : rs[i].cited}
      sentiment == IF \E i \in cited : rs[i].sentiment = "positive"
                   THEN 10 ELSE 0
      position == IF \E i \in cited : rs[i].position \in 1..3
                  THEN 15 ELSE 0
      multi == IF \E q \in {rs[i].query : i \in cited} :
                    Cardinality({rs[i].provider :
                                   i \in {j \in cited : rs[j].query = q}}) >= 2
               THEN 10 ELSE 0
      ahead == {c \in Range(comps) :
                  Cardinality({i \in 1..total : c \in rs[i].competitorsCited})
                    > Cardinality(cited)}
      \* round(100 * cited / total + bonuses - penalties), half up
      rounded == (2 * (100 * Cardinality(cited)
                       + (sentiment + position + multi
                          - 10 * Cardinality(ahead)) * total)
                  + total) \div (2 * total)
  IN IF rounded < 0 THEN 0 ELSE IF rounded > 100 THEN 100 ELSE rounded

\* two results, one cited at position 1 with positive sentiment, the other
\* not cited, no competitor cited more often than the brand
C7_Example(rs) ==
  /\ Len(rs) = 2
  /\ \E i, j \in 1..2 :
       /\ i # j
       /\ rs[i].cited /\ rs[i].position = 1 /\ rs[i].sentiment = "positive"
       /\ ~rs[j].cited
       /\ Cardinality(rs[i].competitorsCited \cap rs[j].competitorsCited) = 0

\* C7: for a non-empty set of probe results the Citation Validation score
\* is clamp[0,100] of round(100 x cited/total + 10 (positive sentiment)
\* + 15 (position <= 3) + 10 (a query cited by >= 2 providers)
\* - 10 x competitors cited more often than the brand); the example gives 75.
C7_ValidationFormula ==
  ( /\ op = "scoreContent"
    /\ outcome = "returned"
    /\ Len(citationValidation.probeResults) > 0 ) =>
    /\ citationValidation.score
         = ClaimedValidationScore(citationValidation.probeResults, competitors)
    /\ C7_Example(citationValidation.probeResults) =>
         citationValidation.score = 75

\* the example of the claim was scored
C7_Witness ==
  /\ op = "scoreContent"
  /\ outcome = "returned"
  /\ C7_Example(citationValidation.probeResults)
  /\ citationValidation.score = 75

\* the counts the competitive gap is about, over the existing results
GapBrandCount == Cardinality({i \in 1..Len(probeResults) :
                                probeResults[i].brandCited})
GapCompetitorCount ==
  SumSeq([c \in 1..Len(competitors) |->
            Cardinality({i \in 1..Len(probeResults) :
                           competitors[c] \in probeResults[i].competitorsCited})])

\* brand rate >= average competitor rate, on the exact rates
GapBrandLeads ==
  \/ competitors = <<>>
  \/ GapBrandCount * Len(competitors) >= GapCompetitorCount

\* max(0, round(100 - 1.5 x (average competitor rate - brand rate))) on the
\* exact rates, for a trailing brand
GapExactScore ==
  LET nm == Len(probeResults) * Len(competitors)
      k == GapCompetitorCount - GapBrandCount * Len(competitors)
      rounded == (2 * (100 * nm - 150 * k) + nm) \div (2 * nm)
  IN IF rounded < 0 THEN 0 ELSE rounded

\* C8 (as claimed): for a non-empty result set the score is 100 when the
\* brand's rate is at least the competitors' average rate and otherwise
\* max(0, round(100 - 1.5 x (average competitor rate - brand rate))),
\* always within [0,100].
C8_GapFormula ==
  ( /\ op = "analyzeCompetitiveGap"
    /\ outcome = "returned"
    /\ Len(probeResults) > 0 ) =>
    /\ result.score \in 0..100
    /\ result.score = IF GapBrandLeads THEN 100 ELSE GapExactScore

\* C8 (amended): the score is 100 when the brand's rate is at least the
\* competitors' average rate; otherwise it is within 1 of
\* max(0, round(100 - 1.5 x (average competitor rate - brand rate))),
\* because the rates are rounded to one decimal before the score is
\* computed; always within [0,100].
C8_GapFormulaUpToRounding ==
  ( /\ op = "analyzeCompetitiveGap"
    /\ outcome = "returned"
    /\ Len(probeResults) > 0 ) =>
    /\ result.score \in 0..100
    /\ GapBrandLeads => result.score = 100
    /\ ~GapBrandLeads => result.score - GapExactScore \in {-1, 0, 1}

\* a trailing brand was scored strictly between 0 and 100
C8_Witness ==
  /\ op = "analyzeCompetitiveGap"
  /\ outcome = "returned"
  /\ Len(probeResults) > 0
  /\ ~GapBrandLeads
  /\ result.score > 0
  /\ result.score < 100

\* no provider produced data for the validation phase
NoValidationData ==
  \/ skipValidation
  \/ probeQueries = 0
  \/ providers = <<>>
  \/ failed = issued

\* C9 (as claimed): when no provider produced data for the validation
\* phase, scoreContent's competitive-gap score is the insufficient-data
\* value 50 with no top competitor.
C9_NoDataGivesInsufficient ==
  (op = "scoreContent" /\ outcome = "returned" /\ NoValidationData) =>
    /\ result.competitiveGap.score = 50
    /\ result.competitiveGap.topCompetitor = "null"

\* C10: with zero extracted queries or no selected provider,
\* validateCitability returns score 0, weight 0.5 and no probe results,
\* issues no provider call and does not raise.
C10_EmptyValidation ==
  ( /\ op = "scoreContent"
    /\ ~skipValidation
    /\ probeQueries = 0 \/ providers = <<>> ) =>
    /\ outcome = "returned"
    /\ issued = {}
    /\ citationValidation.score = 0
    /\ citationValidation.weight = 5
    /\ citationValidation.probeResults = <<>>

\* queries were extracted and a provider is enabled, but none of the
\* enabled providers is in the preference order
C10_Witness ==
  /\ op = "scoreContent"
  /\ ~skipValidation
  /\ probeQueries > 0
  /\ enabled # {}
  /\ providers = <<>>
  /\ outcome = "returned"


(***************************************************************************)
(* The knowledge graph (KnowledgeGraph over KuzuDB).                       *)
(*                                                                         *)
(* An entity name is the sequence of its lower-case words, a flag saying   *)
(* that the literal is written in upper case, and a flag saying that a     *)
(* space follows it.  No name of the model holds a quote or a backslash,   *)
(* and no word of a name is a part of another word at the edge of a name,  *)
(* so containment of the strings is containment of the word sequences.     *)
(***************************************************************************)
Name(ws, up, pd) == [words |-> ws, upper |-> up, pad |-> pd]

Salesforce == Name(<<"salesforce">>, FALSE, FALSE)
SalesforceCRM == Name(<<"salesforce", "crm">>, FALSE, FALSE)
SalesforceCRMPadded == Name(<<"salesforce", "crm">>, FALSE, TRUE)
SalesforceSalesCloud == Name(<<"salesforce", "sales", "cloud">>, FALSE, FALSE)
HubSpot == Name(<<"hubspot">>, FALSE, FALSE)
HubSpotUpper == Name(<<"hubspot">>, TRUE, FALSE)

\* String.prototype.toLowerCase / Cypher toLower
toLowerCase(nm) == [nm EXCEPT !.upper = FALSE]

\* String.prototype.trim
trim(nm) == [nm EXCEPT !.pad = FALSE]

\* lower case, every run of other characters becomes "-", no "-" at the ends
slugify(nm) == nm.words

\* Cypher CONTAINS on two lower-case strings: b occurs in a
CONTAINS(a, b) ==
  \E i \in 1..(Len(a.words) - Len(b.words) + 1) :
    /\ SubSeq(a.words, i, i + Len(b.words) - 1) = b.words
    /\ b.pad => (i + Len(b.words) - 1 < Len(a.words) \/ a.pad)

\* the texts of the model that hold an apostrophe
HasApostrophe(str) == str \in {"what's the best CRM"}

\* escape(str) puts a backslash before every apostrophe and then doubles
\* every backslash, so in the query an apostrophe of str follows an escaped
\* backslash and ends the string literal: the query does not parse
SyntaxError == "syntax error"
escape(str) == IF HasApostrophe(str) THEN SyntaxError ELSE str

\* `entity-${slugify(name)}`
entityId(nm) == [kind |-> "entity", slug |-> slugify(nm), n |-> 0]

\* `alias-${Date.now()}-${random}` and `cit-${Date.now()}-${random}`: the
\* n-th generated identifier
aliasId(n) == [kind |-> "alias", slug |-> <<>>, n |-> n]
citationId(n) == [kind |-> "cit", slug |-> <<>>, n |-> n]

SeededProviders ==
  {[name |-> "openai", searchBackend |-> "Bing"],
   [name |-> "anthropic", searchBackend |-> "Brave"],
   [name |-> "google", searchBackend |-> "Google Search"],
   [name |-> "perplexity", searchBackend |-> "Multi-index"],
   [name |-> "tavily", searchBackend |-> "Aggregated (20+ sources)"]}

\* init(): the schema is there from the start; MERGE seeds the providers
init(g) ==
  IF g.initialized
    THEN g
    ELSE [g EXCEPT !.Provider = @ \cup SeededProviders,
                   !.initialized = TRUE]

\* MERGE (e:Entity {id}) SET e.canonicalName = name
MergeEntity(g, id, nm) ==
  [g EXCEPT !.Entity = {e \in @ : e.id # id}
                         \cup {[id |-> id, canonicalName |-> nm]}]

\* MATCH (alias:Entity {id}), (canonical:Entity {id}) CREATE (alias)-[:ALIAS_OF]->(canonical)
CreateAliasOf(g, from, to, source) ==
  IF (\E e \in g.Entity : e.id = from) /\ (\E e \in g.Entity : e.id = to)
    THEN [g EXCEPT !.ALIAS_OF =
                     @ \cup {[from |-> from, to |-> to, source |-> source]}]
    ELSE g

\* MERGE (q:Query {text}) SET q.category = category
MergeQuery(g, text, category) ==
  [g EXCEPT !.Query = {q \in @ : q.text # text}
                        \cup {[text |-> text, category |-> category]}]

\* CREATE (c:Citation {id, cited, ...})
CreateCitation(g, id, cited) ==
  [g EXCEPT !.Citation = @ \cup {[id |-> id, cited |-> cited]}]

\* MATCH (e:Entity {id}), (c:Citation {id}) CREATE (e)-[:CITED_IN]->(c)
CreateCitedIn(g, entity, cit) ==
  IF (\E e \in g.Entity : e.id = entity) /\ (\E c \in g.Citation : c.id = cit)
    THEN [g EXCEPT !.CITED_IN = @ \cup {[from |-> entity, to |-> cit]}]
    ELSE g

\* MATCH (c:Citation {id}), (p:Provider {name}) CREATE (c)-[:FROM_PROVIDER]->(p)
CreateFromProvider(g, cit, provider) ==
  IF (\E c \in g.Citation : c.id = cit)
       /\ (\E p \in g.Provider : p.name = provider)
    THEN [g EXCEPT !.FROM_PROVIDER = @ \cup {[from |-> cit, to |-> provider]}]
    ELSE g

\* MATCH (c:Citation {id}), (q:Query {text}) CREATE (c)-[:FOR_QUERY]->(q)
CreateForQuery(g, cit, text) ==
  IF (\E c \in g.Citation : c.id = cit) /\ (\E q \in g.Query : q.text = text)
    THEN [g EXCEPT !.FOR_QUERY = @ \cup {[from |-> cit, to |-> text]}]
    ELSE g

NoId == [kind |-> "none", slug |-> <<>>, n |-> 0]
NullResolution ==
  [found |-> FALSE, canonicalName |-> NoId, aliases |-> {}, providers |-> {}]

\* buildResolution(entityId): canonicalName holds the ID of the matched
\* node, aliases the lower-cased names of the nodes with an ALIAS_OF edge
\* to it
buildResolution(g, id) ==
  [found |-> TRUE,
   canonicalName |-> id,
   aliases |-> {toLowerCase(a.canonicalName) :
                  a \in {e \in g.Entity :
                           \E r \in g.ALIAS_OF : r.from = e.id /\ r.to = id}},
   providers |-> {fp.to : fp \in {r \in g.FROM_PROVIDER :
                    \E ci \in g.CITED_IN : ci.from = id /\ ci.to = r.from}}]

\* MATCH (e:Entity) WHERE toLower(e.canonicalName) = normalized
ExactRows(g, nm) ==
  {e \in g.Entity : toLowerCase(e.canonicalName) = trim(toLowerCase(nm))}

\* MATCH (e:Entity) WHERE normalized CONTAINS toLower(e.canonicalName)
\*                     OR toLower(e.canonicalName) CONTAINS normalized
SubstringRows(g, nm) ==
  {e \in g.Entity :
     \/ CONTAINS(trim(toLowerCase(nm)), toLowerCase(e.canonicalName))
     \/ CONTAINS(toLowerCase(e.canonicalName), trim(toLowerCase(nm)))}

\* resolveEntity(name): the possible results.  Neither query orders its
\* rows, so exactRows[0] and the LIMIT 1 row are any of the matching rows.
resolveEntity(g, nm) ==
  IF ExactRows(g, nm) # {}
    THEN {buildResolution(g, e.id) : e \in ExactRows(g, nm)}
    ELSE IF SubstringRows(g, nm) # {}
      THEN {buildResolution(g, e.id) : e \in SubstringRows(g, nm)}
      ELSE {NullResolution}

\* what upsertEntity does once resolveEntity has returned existing
UpsertResolved(g, nm, source, existing) ==
  IF existing.found
    THEN IF toLowerCase(nm) \notin existing.aliases
      THEN [graph |-> CreateAliasOf(
                        MergeEntity([g EXCEPT !.generated = @ + 1],
                                    aliasId(g.generated + 1), nm),
                        aliasId(g.generated + 1), existing.canonicalName,
                        source),
            id |-> existing.canonicalName]
      ELSE [graph |-> g, id |-> existing.canonicalName]
    ELSE [graph |-> MergeEntity(g, entityId(nm), nm), id |-> entityId(nm)]

\* upsertEntity(name, type, domain, source): the possible outcomes, each
\* the graph it leaves and the id it returns
upsertEntity(g, nm, source) ==
  {UpsertResolved(init(g), nm, source, existing) :
     existing \in resolveEntity(init(g), nm)}

\* what recordCitation does once upsertEntity has returned entity
CiteResolved(g, ev, entity) ==
  LET cit == citationId(g.generated + 1)
      g1 == MergeQuery([g EXCEPT !.generated = @ + 1],
                       escape(ev.query), escape(ev.queryCategory))
      g2 == CreateCitation(g1, cit, ev.cited)
      g3 == CreateCitedIn(g2, entity, cit)
      g4 == CreateFromProvider(g3, cit, ev.provider)
  IN  CreateForQuery(g4, cit, escape(ev.query))

\* the MERGE of the Query node is the first query built from the event's
\* texts: conn.query rejects when it does not parse
CiteThrows(ev) ==
  SyntaxError \in {escape(ev.query), escape(ev.queryCategory)}

\* recordCitation(event): the possible outcomes, each the graph it leaves,
\* the entity id upsertEntity returned and whether the call rejected
recordCitation(g, ev) ==
  {[graph |-> IF CiteThrows(ev) THEN u.graph
                                ELSE CiteResolved(u.graph, ev, u.id),
    id |-> u.id, threw |-> CiteThrows(ev)] :
     u \in upsertEntity(init(g), ev.entityName, ev.provider)}

\* recordCompetition(brandName, competitorName, category):
\* MATCH (a:Entity {id}), (b:Entity {id}) MERGE (a)-[:COMPETES_WITH {category}]->(b)
recordCompetition(g, brandName, competitorName, category) ==
  LET g0 == init(g)
      brandId == entityId(brandName)
      competitorId == entityId(competitorName)
  IN  IF (\E e \in g0.Entity : e.id = brandId)
           /\ (\E e \in g0.Entity : e.id = competitorId)
        THEN [g0 EXCEPT !.COMPETES_WITH =
                @ \cup {[from |-> brandId, to |-> competitorId,
                         category |-> category]}]
        ELSE g0

Event(nm, provider, query, category, cited) ==
  [entityName |-> nm, provider |-> provider, query |-> query,
   queryCategory |-> category, cited |-> cited]

\* ingestCitationResult, its loop over result.competitorsCited from index i
RECURSIVE IngestCompetitorsCited(_, _, _)
IngestCompetitorsCited(g, res, i) ==
  IF i > Len(res.competitorsCited)
    THEN {g}
    ELSE LET competitor == res.competitorsCited[i]
         IN  UNION {IF r.threw THEN {r.graph} ELSE IngestCompetitorsCited(
                      IF competitor.cited \/ res.cited
                        THEN recordCompetition(r.graph, res.brandName,
                                               competitor.name,
                                               res.queryCategory)
                        ELSE r.graph,
                      res, i + 1) :
                    r \in recordCitation(g, Event(competitor.name,
                            res.provider, res.query, res.queryCategory,
                            competitor.cited))}

\* ingestCitationResult(result): the graphs it can leave
ingestCitationResult(g, res) ==
  UNION {IF r.threw THEN {r.graph}
                    ELSE IngestCompetitorsCited(r.graph, res, 1) :
           r \in recordCitation(g, Event(res.brandName, res.provider,
                   res.query, res.queryCategory, res.cited))}

\* ingestCompetitiveAnalysis, its loop over competitors from index j for
\* one probe result; competitorCitations is a map from names to citations
RECURSIVE IngestCompetitors(_, _, _, _, _)
IngestCompetitors(g, brandName, comps, res, j) ==
  IF j > Len(comps)
    THEN {g}
    ELSE IF comps[j] \notin DOMAIN res.competitorCitations
      THEN IngestCompetitors(g, brandName, comps, res, j + 1)
      ELSE UNION {IF r.threw THEN {r.graph} ELSE IngestCompetitors(
                    recordCompetition(r.graph, brandName, comps[j],
                                      res.category),
                    brandName, comps, res, j + 1) :
                  r \in recordCitation(g, Event(comps[j], res.provider,
                          res.query, res.category,
                          res.competitorCitations[comps[j]]))}

\* ingestCompetitiveAnalysis(brandName, brandDomain, competitors,
\* probeResults): the graphs it can leave, from probe result i on
RECURSIVE ingestCompetitiveAnalysis(_, _, _, _, _)
ingestCompetitiveAnalysis(g, brandName, comps, results, i) ==
  IF i > Len(results)
    THEN {g}
    ELSE UNION {IF r.threw THEN {r.graph} ELSE
                UNION {ingestCompetitiveAnalysis(g2, brandName, comps,
                                                 results, i + 1) :
                         g2 \in IngestCompetitors(r.graph, brandName, comps,
                                                  results[i], 1)} :
                  r \in recordCitation(g, Event(brandName,
                          results[i].provider, results[i].query,
                          results[i].category, results[i].brandCited))}

(***************************************************************************)
(* The graph's operations called one after another, each awaited before    *)
(* the next starts.                                                        *)
(***************************************************************************)
MaxGraphCalls == 3    \* at most this many calls on the graph

baseVars == <<op, pc, enabled, providers, probeQueries, competitors,
              skipValidation, structural, pending, probeResults, cursor,
              available, probeSucceeded, runs, stored, batch, issued,
              consulted, failed, vetoed, citationValidation, outcome, result,
              content>>

coreVars == <<baseVars, appVars>>

GraphNames ==
  {Salesforce, SalesforceCRM, SalesforceCRMPadded, SalesforceSalesCloud,
   HubSpot, HubSpotUpper}

\* a probe: the provider asked, the query, its category, whether the
\* detector found the entity
ProbeSlots ==
  {[provider |-> "openai", query |-> "best CRM tools 2026",
    category |-> "best-of", cited |-> TRUE],
   [provider |-> "perplexity", query |-> "compare CRM platforms",
    category |-> "comparison", cited |-> FALSE]}

\* every name is cited by the first probe, two names by the second too
GraphEvents ==
  {Event(nm, s.provider, s.query, s.category, s.cited) :
     nm \in GraphNames, s \in {t \in ProbeSlots : t.cited}}
  \cup {Event(nm, s.provider, s.query, s.category, s.cited) :
          nm \in {Salesforce, HubSpot}, s \in {t \in ProbeSlots : ~t.cited}}
  \cup {Event(HubSpot, "openai", "what's the best CRM", "best-of", TRUE)}

BrandNames == {Salesforce, SalesforceCRM}
CompetitorLists == {<<HubSpot>>}

\* the log entry of a completed call: its arguments, the entity id it
\* returned or used, and the size of the tables it left
Logged(fn, nm, others, category, id, threw, g) ==
  [fn |-> fn, name |-> nm, others |-> others, category |-> category,
   id |-> id, threw |-> threw, entities |-> Cardinality(g.Entity),
   aliases |-> Cardinality(g.ALIAS_OF),
   citations |-> Cardinality(g.Citation)]

InitGraph == op = "graph" /\ Idle /\ GraphIdle /\ AppIdle

UpsertEntity ==
  /\ op = "graph" /\ Len(log) < MaxGraphCalls
  /\ \E nm \in GraphNames :
       \E u \in upsertEntity(graph, nm, "openai") :
         /\ graph' = u.graph
         /\ log' = Append(log, Logged("upsertEntity", nm, <<>>, "", u.id,
                                      FALSE, u.graph))
  /\ UNCHANGED <<coreVars, calls>>

RecordCitation ==
  /\ op = "graph" /\ Len(log) < MaxGraphCalls
  /\ \E ev \in GraphEvents :
       \E r \in recordCitation(graph, ev) :
         /\ graph' = r.graph
         /\ log' = Append(log, Logged("recordCitation", ev.entityName, <<>>,
                                      ev.queryCategory, r.id, r.threw,
                                      r.graph))
  /\ UNCHANGED <<coreVars, calls>>

RecordCompetition ==
  /\ op = "graph" /\ Len(log) < MaxGraphCalls
  /\ \E brandName \in BrandNames, competitorName \in {HubSpot, HubSpotUpper},
        category \in {"best-of", "comparison"} :
       LET g == recordCompetition(graph, brandName, competitorName, category)
       IN  /\ graph' = g
           /\ log' = Append(log, Logged("recordCompetition", brandName,
                                        <<competitorName>>, category, NoId,
                                        FALSE, g))
  /\ UNCHANGED <<coreVars, calls>>

IngestCitationResult ==
  /\ op = "graph" /\ Len(log) < MaxGraphCalls
  /\ \E brandName \in BrandNames, comps \in CompetitorLists,
        s \in ProbeSlots :
       LET res == [brandName |-> brandName, provider |-> s.provider,
                   query |-> s.query, queryCategory |-> s.category,
                   cited |-> s.cited,
                   competitorsCited |->
                     <<[name |-> comps[1], cited |-> FALSE]>>]
       IN  \E g \in ingestCitationResult(graph, res) :
             /\ graph' = g
             /\ log' = Append(log, Logged("ingestCitationResult", brandName,
                                          comps, s.category, NoId, FALSE,
                                          g))
  /\ UNCHANGED <<coreVars, calls>>

IngestCompetitiveAnalysis ==
  /\ op = "graph" /\ Len(log) < MaxGraphCalls
  /\ \E brandName \in BrandNames, comps \in CompetitorLists,
        s \in ProbeSlots :
       LET res == [provider |-> s.provider, query |-> s.query,
                   category |-> s.category, brandCited |-> s.cited,
                   competitorCitations |-> [c \in {comps[1]} |-> ~s.cited]]
       IN  \E g \in ingestCompetitiveAnalysis(graph, brandName, comps,
                                              <<res>>, 1) :
             /\ graph' = g
             /\ log' = Append(log, Logged("ingestCompetitiveAnalysis",
                                          brandName, comps, s.category,
                                          NoId, FALSE, g))
  /\ UNCHANGED <<coreVars, calls>>

NextGraph ==
  \/ UpsertEntity
  \/ RecordCitation
  \/ RecordCompetition
  \/ IngestCitationResult
  \/ IngestCompetitiveAnalysis

SpecGraph == InitGraph /\ [][NextGraph]_vars

(***************************************************************************)
(* Concurrent ingestion: several recordCitation calls are in flight on the *)
(* same graph.  A call runs up to its next awaited conn.query, the query   *)
(* is applied to the tables, and any call may go on next.                  *)
(***************************************************************************)
MaxIngestCalls == 2   \* at most this many calls in flight

IngestEvents ==
  <<Event(Salesforce, "openai", "best CRM tools 2026", "best-of", TRUE),
    Event(SalesforceCRM, "perplexity", "best CRM tools 2026", "best-of",
          TRUE),
    Event(HubSpot, "openai", "what's the best CRM", "best-of", TRUE)>>

\* the graphs the calls start on: after init(), and after
\* upsertEntity("Salesforce") on that
IngestGraphs ==
  {init(EmptyGraph), MergeEntity(init(EmptyGraph), entityId(Salesforce),
                                Salesforce)}

\* a call that has not run yet
Frame(ev, g) ==
  [ev |-> ev, pc |-> "exact", row |-> NoId, existing |-> NullResolution,
   entity |-> NoId, alias |-> NoId, cit |-> NoId, start |-> g]

InitIngest ==
  /\ op = "ingest"
  /\ Idle
  /\ AppIdle
  /\ log = <<>>
  /\ \E g \in IngestGraphs, n \in 1..MaxIngestCalls :
       /\ graph = g
       /\ \E evs \in [1..n -> 1..Len(IngestEvents)] :
            \* the calls start together: their order does not matter
            /\ \A k \in 1..(n - 1) : evs[k] <= evs[k + 1]
            /\ calls = [k \in 1..n |-> Frame(IngestEvents[evs[k]], g)]

\* resolveEntity: the exact-match query; exactRows[0] is any of its rows
QueryExact(k) ==
  /\ op = "ingest" /\ k \in 1..Len(calls) /\ calls[k].pc = "exact"
  /\ IF ExactRows(graph, calls[k].ev.entityName) # {}
       THEN \E e \in ExactRows(graph, calls[k].ev.entityName) :
              calls' = [calls EXCEPT ![k].row = e.id, ![k].pc = "aliases"]
       ELSE calls' = [calls EXCEPT ![k].pc = "substring"]
  /\ UNCHANGED <<coreVars, graph, log>>

\* resolveEntity: the substring query; no row means a new entity
QuerySubstring(k) ==
  /\ op = "ingest" /\ k \in 1..Len(calls) /\ calls[k].pc = "substring"
  /\ IF SubstringRows(graph, calls[k].ev.entityName) # {}
       THEN \E e \in SubstringRows(graph, calls[k].ev.entityName) :
              calls' = [calls EXCEPT ![k].row = e.id, ![k].pc = "aliases"]
       ELSE calls' = [calls EXCEPT ![k].pc = "mergeEntity"]
  /\ UNCHANGED <<coreVars, graph, log>>

\* buildResolution's queries, then upsertEntity's test of existing.aliases
\* and the alias id it generates
QueryAliases(k) ==
  /\ op = "ingest" /\ k \in 1..Len(calls) /\ calls[k].pc = "aliases"
  /\ LET existing == buildResolution(graph, calls[k].row)
     IN  IF toLowerCase(calls[k].ev.entityName) \notin existing.aliases
           THEN /\ calls' = [calls EXCEPT
                               ![k].existing = existing,
                               ![k].alias = aliasId(graph.generated + 1),
                               ![k].pc = "mergeAlias"]
                /\ graph' = [graph EXCEPT !.generated = @ + 1]
           ELSE /\ calls' = [calls EXCEPT
                               ![k].existing = existing,
                               ![k].entity = existing.canonicalName,
                               ![k].pc = "mergeQuery"]
                /\ graph' = graph
  /\ UNCHANGED <<coreVars, log>>

\* MERGE (alias:Entity {id: aliasId})
MergeAlias(k) ==
  /\ op = "ingest" /\ k \in 1..Len(calls) /\ calls[k].pc = "mergeAlias"
  /\ graph' = MergeEntity(graph, calls[k].alias, calls[k].ev.entityName)
  /\ calls' = [calls EXCEPT ![k].pc = "createAlias"]
  /\ UNCHANGED <<coreVars, log>>

\* CREATE (alias)-[:ALIAS_OF]->(canonical); upsertEntity returns
CreateAlias(k) ==
  /\ op = "ingest" /\ k \in 1..Len(calls) /\ calls[k].pc = "createAlias"
  /\ graph' = CreateAliasOf(graph, calls[k].alias,
                            calls[k].existing.canonicalName,
                            calls[k].ev.provider)
  /\ calls' = [calls EXCEPT ![k].entity = calls[k].existing.canonicalName,
                            ![k].pc = "mergeQuery"]
  /\ UNCHANGED <<coreVars, log>>

\* MERGE (e:Entity {id: `entity-${slug}`}); upsertEntity returns
MergeNewEntity(k) ==
  /\ op = "ingest" /\ k \in 1..Len(calls) /\ calls[k].pc = "mergeEntity"
  /\ graph' = MergeEntity(graph, entityId(calls[k].ev.entityName),
                          calls[k].ev.entityName)
  /\ calls' = [calls EXCEPT ![k].entity = entityId(calls[k].ev.entityName),
                            ![k].pc = "mergeQuery"]
  /\ UNCHANGED <<coreVars, log>>

\* MERGE (q:Query {text}); a text that does not parse rejects the call.
\* The citation id is generated when the query has returned.
MergeQueryNode(k) ==
  /\ op = "ingest" /\ k \in 1..Len(calls) /\ calls[k].pc = "mergeQuery"
  /\ IF CiteThrows(calls[k].ev)
       THEN /\ calls' = [calls EXCEPT ![k].pc = "rejected"]
            /\ graph' = graph
            /\ log' = Append(log, Logged("recordCitation",
                        calls[k].ev.entityName, <<>>,
                        calls[k].ev.queryCategory, calls[k].entity, TRUE,
                        graph))
       ELSE /\ calls' = [calls EXCEPT
                           ![k].cit = citationId(graph.generated + 1),
                           ![k].pc = "createCitation"]
            /\ graph' = MergeQuery([graph EXCEPT !.generated = @ + 1],
                                   escape(calls[k].ev.query),
                                   escape(calls[k].ev.queryCategory))
            /\ log' = log
  /\ UNCHANGED coreVars

\* CREATE (c:Citation {id: citationId, ...})
CreateCitationNode(k) ==
  /\ op = "ingest" /\ k \in 1..Len(calls) /\ calls[k].pc = "createCitation"
  /\ graph' = CreateCitation(graph, calls[k].cit, calls[k].ev.cited)
  /\ calls' = [calls EXCEPT ![k].pc = "citedIn"]
  /\ UNCHANGED <<coreVars, log>>

\* CREATE (e)-[:CITED_IN]->(c)
LinkEntity(k) ==
  /\ op = "ingest" /\ k \in 1..Len(calls) /\ calls[k].pc = "citedIn"
  /\ graph' = CreateCitedIn(graph, calls[k].entity, calls[k].cit)
  /\ calls' = [calls EXCEPT ![k].pc = "fromProvider"]
  /\ UNCHANGED <<coreVars, log>>

\* CREATE (c)-[:FROM_PROVIDER]->(p)
LinkProvider(k) ==
  /\ op = "ingest" /\ k \in 1..Len(calls) /\ calls[k].pc = "fromProvider"
  /\ graph' = CreateFromProvider(graph, calls[k].cit, calls[k].ev.provider)
  /\ calls' = [calls EXCEPT ![k].pc = "forQuery"]
  /\ UNCHANGED <<coreVars, log>>

\* CREATE (c)-[:FOR_QUERY]->(q); recordCitation resolves
LinkQuery(k) ==
  /\ op = "ingest" /\ k \in 1..Len(calls) /\ calls[k].pc = "forQuery"
  /\ graph' = CreateForQuery(graph, calls[k].cit, escape(calls[k].ev.query))
  /\ calls' = [calls EXCEPT ![k].pc = "resolved"]
  /\ log' = Append(log, Logged("recordCitation", calls[k].ev.entityName,
                               <<>>, calls[k].ev.queryCategory,
                               calls[k].entity, FALSE, graph'))
  /\ UNCHANGED coreVars

NextIngest ==
  \E k \in 1..MaxIngestCalls :
    \/ QueryExact(k)
    \/ QuerySubstring(k)
    \/ QueryAliases(k)
    \/ MergeAlias(k)
    \/ CreateAlias(k)
    \/ MergeNewEntity(k)
    \/ MergeQueryNode(k)
    \/ CreateCitationNode(k)
    \/ LinkEntity(k)
    \/ LinkProvider(k)
    \/ LinkQuery(k)

SpecIngest == InitIngest /\ [][NextIngest]_vars

(***************************************************************************)
(* Properties of the knowledge graph                                       *)
(***************************************************************************)
ResolvingCalls == {"upsertEntity", "recordCitation"}

\* C11: entity resolution is idempotent: when upsertEntity or
\* recordCitation is called twice in a row with the same literal name, the
\* second call resolves to the same entity id as the first and leaves the
\* number of ALIAS_OF edges as the first call left it.
C11_ResolutionIdempotent ==
  \A i \in 1..(Len(log) - 1) :
    (/\ log[i].fn \in ResolvingCalls
     /\ log[i + 1].fn \in ResolvingCalls
     /\ log[i + 1].name = log[i].name)
      => /\ log[i + 1].id = log[i].id
         /\ log[i + 1].aliases = log[i].aliases

\* the literal names the calls before call i handed to upsertEntity
SeenBefore(i) ==
  UNION {{log[j].name} \cup Range(log[j].others) :
           j \in {k \in 1..(i - 1) : log[k].fn # "recordCompetition"}}

EntitiesBefore(i) == IF i = 1 THEN 0 ELSE log[i - 1].entities

\* C12: an entity is never duplicated: no node that is the source of an
\* ALIAS_OF edge carries the same literal name as the node the edge points
\* to, and a call of upsertEntity or recordCitation adds an Entity node only
\* when its literal name was not observed by an earlier call.
C12_NoDuplicateEntity ==
  /\ \A r \in graph.ALIAS_OF : \A a, c \in graph.Entity :
       (a.id = r.from /\ c.id = r.to) => a.canonicalName # c.canonicalName
  /\ \A i \in 1..Len(log) :
       (log[i].fn \in ResolvingCalls /\ log[i].entities > EntitiesBefore(i))
         => log[i].name \notin SeenBefore(i)

\* String.prototype.includes on the literals: a holds b, case and all
Includes(a, b) == a.upper = b.upper /\ CONTAINS(a, b)

\* the calls so far are upsertEntity of a name and then of distinct other
\* names that each contain it
CanonicalThenVariants ==
  /\ Len(log) >= 1
  /\ \A i \in 1..Len(log) : log[i].fn = "upsertEntity"
  /\ \A i, j \in 1..Len(log) : i # j => log[i].name # log[j].name
  /\ \A i \in 2..Len(log) : Includes(log[i].name, log[1].name)

\* C13: from an empty graph, upserting a name and then k distinct variants
\* that each contain it returns the id of the first name's entity every
\* time and leaves exactly k ALIAS_OF edges, all of them pointing to that
\* entity.
C13_VariantsResolveToCanonical ==
  CanonicalThenVariants
    => /\ \A i \in 1..Len(log) : log[i].id = entityId(log[1].name)
       /\ Cardinality(graph.ALIAS_OF) = Len(log) - 1
       /\ \A r \in graph.ALIAS_OF : r.to = entityId(log[1].name)

\* the scenario of the graph test: Salesforce, then Salesforce CRM and
\* Salesforce Sales Cloud in either order
SalesforceScenario ==
  /\ CanonicalThenVariants
  /\ log[1].name = Salesforce
  /\ \A i \in 2..Len(log) :
       log[i].name \in {SalesforceCRM, SalesforceSalesCloud}

C13_ScenarioHolds ==
  SalesforceScenario
    => /\ \A i \in 1..Len(log) : log[i].id = entityId(Salesforce)
       /\ Cardinality(graph.ALIAS_OF) = Len(log) - 1
       /\ \A r \in graph.ALIAS_OF : r.to = entityId(Salesforce)

\* the rows of getCitationPaths' query for the node with this id; the
\* citation's id stands for the row's place in the returned list
CitationPathRows(g, id) ==
  {[citation |-> ci.to,
    entity |-> (CHOOSE e \in g.Entity : e.id = id).canonicalName,
    provider |-> fp.to, query |-> fq.to,
    cited |-> (CHOOSE c \in g.Citation : c.id = ci.to).cited] :
     <<ci, fp, fq>> \in
       {t \in g.CITED_IN \X g.FROM_PROVIDER \X g.FOR_QUERY :
          t[1].from = id /\ t[2].from = t[1].to /\ t[3].from = t[1].to}}

\* getCitationPaths(entityName): the possible results
getCitationPaths(g, nm) ==
  {IF entity.found THEN CitationPathRows(init(g), entity.canonicalName)
                   ELSE {} :
     entity \in resolveEntity(init(g), nm)}

\* the rows of getSearchBackendAnalysis' query for the node with this id:
\* per provider the number of citations and of those with cited = true
BackendRows(g, id) ==
  {[backend |-> p.searchBackend, provider |-> p.name,
    citationRate |->
      RoundDiv(100 * Cardinality({r \in CitationPathRows(g, id) :
                                    r.provider = p.name /\ r.cited}),
               Cardinality({r \in CitationPathRows(g, id) :
                              r.provider = p.name})),
    totalProbes |-> Cardinality({r \in CitationPathRows(g, id) :
                                   r.provider = p.name})] :
     p \in {q \in g.Provider :
              \E r \in CitationPathRows(g, id) : r.provider = q.name}}

\* getSearchBackendAnalysis(entityName): the possible results
getSearchBackendAnalysis(g, nm) ==
  {IF entity.found THEN BackendRows(init(g), entity.canonicalName)
                   ELSE {} :
     entity \in resolveEntity(init(g), nm)}

\* the citations of a set of path rows, without the name of the node
CitationsOf(rows) ==
  {[citation |-> r.citation, provider |-> r.provider, query |-> r.query,
    cited |-> r.cited] : r \in rows}

\* C14: citations recorded under any variant belong to the one canonical
\* entity: every CITED_IN edge starts at a node that is not an alias, and
\* for every alias node and the node it points to, getCitationPaths and
\* getSearchBackendAnalysis give the same citations for the two names.
C14_VariantsAttributed ==
  /\ \A ci \in graph.CITED_IN : \A r \in graph.ALIAS_OF : ci.from # r.from
  /\ \A r \in graph.ALIAS_OF : \A a, c \in graph.Entity :
       (a.id = r.from /\ c.id = r.to)
         => /\ {CitationsOf(rows) :
                  rows \in getCitationPaths(graph, a.canonicalName)}
               = {CitationsOf(rows) :
                    rows \in getCitationPaths(graph, c.canonicalName)}
            /\ getSearchBackendAnalysis(graph, a.canonicalName)
               = getSearchBackendAnalysis(graph, c.canonicalName)

\* citation node c has exactly one edge of each kind, each to a node of
\* the graph
FullyLinked(g, c) ==
  /\ Cardinality({r \in g.CITED_IN : r.to = c.id}) = 1
  /\ Cardinality({r \in g.FROM_PROVIDER : r.from = c.id}) = 1
  /\ Cardinality({r \in g.FOR_QUERY : r.from = c.id}) = 1
  /\ \A r \in g.CITED_IN : r.to = c.id => \E e \in g.Entity : e.id = r.from
  /\ \A r \in g.FROM_PROVIDER :
       r.from = c.id => \E p \in g.Provider : p.name = r.to
  /\ \A r \in g.FOR_QUERY :
       r.from = c.id
         => Cardinality({q \in g.Query : q.text = r.to}) = 1

\* no call removes or changes a Citation node or one of its edges
CitationsKept ==
  /\ graph.Citation \subseteq graph'.Citation
  /\ graph.CITED_IN \subseteq graph'.CITED_IN
  /\ graph.FROM_PROVIDER \subseteq graph'.FROM_PROVIDER
  /\ graph.FOR_QUERY \subseteq graph'.FOR_QUERY

\* the step is a call of recordCitation
RecordCitationStep ==
  Len(log') = Len(log) + 1 /\ log'[Len(log')].fn = "recordCitation"

\* the step adds exactly one Citation node, which is fully linked
OneCitationAdded ==
  \E c \in graph'.Citation \ graph.Citation :
    /\ graph'.Citation = graph.Citation \cup {c}
    /\ FullyLinked(graph', c)

\* C15: every call of recordCitation appends exactly one Citation node
\* that has exactly one CITED_IN, one FROM_PROVIDER and one FOR_QUERY edge,
\* and no call changes or removes the Citation nodes and edges that exist.
C15_CitationAppended ==
  [][CitationsKept /\ (RecordCitationStep => OneCitationAdded)]_vars

\* the same for the calls of recordCitation that do not reject
C15_AppendedUnlessRejected ==
  [][CitationsKept
     /\ ((RecordCitationStep /\ ~log'[Len(log')].threw) => OneCitationAdded)
    ]_vars

\* the node an alias chain starting at id ends at (id itself when it is
\* not the source of an ALIAS_OF edge); fuel bounds the length of the chain
RECURSIVE RootOf(_, _, _)
RootOf(g, id, fuel) ==
  IF fuel = 0 \/ ~\E r \in g.ALIAS_OF : r.from = id
    THEN id
    ELSE RootOf(g, (CHOOSE r \in g.ALIAS_OF : r.from = id).to, fuel - 1)

\* the entities a name stands for: the roots of the nodes it resolves to
EntitiesOf(g, nm) ==
  {RootOf(g, r.canonicalName, Cardinality(g.Entity)) :
     r \in {x \in resolveEntity(g, nm) : x.found}}

IngestCalls == {"ingestCitationResult", "ingestCompetitiveAnalysis"}

\* the COMPETES_WITH edges of a category between the entities of two names
CompetitionEdges(g, brandName, competitorName, category) ==
  {r \in g.COMPETES_WITH :
     /\ r.category = category
     /\ r.from \in EntitiesOf(g, brandName)
     /\ r.to \in EntitiesOf(g, competitorName)}

\* C16: once a brand and a competitor have been ingested together for a
\* category, the graph holds exactly one COMPETES_WITH edge of that
\* category from the brand's entity to the competitor's entity, whatever
\* the number of ingestions and whatever name first created the entities.
C16_OneCompetitionEdge ==
  \A i \in 1..Len(log) :
    log[i].fn \in IngestCalls
      => \A j \in 1..Len(log[i].others) :
           Cardinality(CompetitionEdges(graph, log[i].name,
                                        log[i].others[j], log[i].category))
             = 1

\* what identifies a node apart from its generated identifier
NodeOf(g, id) ==
  IF \E e \in g.Entity : e.id = id
    THEN [kind |-> id.kind, slug |-> id.slug,
          name |-> (CHOOSE e \in g.Entity : e.id = id).canonicalName]
    ELSE [kind |-> "none", slug |-> <<>>, name |-> Name(<<>>, FALSE, FALSE)]

\* the graph without its generated identifiers: every kind of node and
\* edge with the number of times it occurs
EntityShape(g) ==
  {<<NodeOf(g, e.id),
     Cardinality({x \in g.Entity : NodeOf(g, x.id) = NodeOf(g, e.id)})>> :
     e \in g.Entity}

AliasEdge(g, r) == <<NodeOf(g, r.from), NodeOf(g, r.to), r.source>>

AliasShape(g) ==
  {<<AliasEdge(g, r),
     Cardinality({x \in g.ALIAS_OF : AliasEdge(g, x) = AliasEdge(g, r)})>> :
     r \in g.ALIAS_OF}

CitationEdges(g, c) ==
  [cited |-> c.cited,
   entities |-> {NodeOf(g, r.from) : r \in {x \in g.CITED_IN : x.to = c.id}},
   providers |-> {r.to : r \in {x \in g.FROM_PROVIDER : x.from = c.id}},
   queries |-> {r.to : r \in {x \in g.FOR_QUERY : x.from = c.id}}]

CitationShape(g) ==
  {<<CitationEdges(g, c),
     Cardinality({x \in g.Citation :
                    CitationEdges(g, x) = CitationEdges(g, c)})>> :
     c \in g.Citation}

Shape(g) ==
  [entities |-> EntityShape(g), aliases |-> AliasShape(g),
   citations |-> CitationShape(g), queries |-> g.Query]

\* the graphs that the calls numbered in todo can leave when they run one
\* after another, in any order, from graph g
RECURSIVE Serial(_, _)
Serial(g, todo) ==
  IF todo = {}
    THEN {g}
    ELSE UNION {UNION {Serial(r.graph, todo \ {k}) :
                         r \in recordCitation(g, calls[k].ev)} :
                  k \in todo}

AllSettled ==
  /\ op = "ingest"
  /\ \A k \in 1..Len(calls) : calls[k].pc \in {"resolved", "rejected"}

\* C17: concurrent ingestion is serialisable: when all the recordCitation
\* calls in flight have settled, the graph is, up to the generated
\* identifiers, a graph that the same calls leave when they run one after
\* another in some order.
C17_Serialisable ==
  AllSettled
    => Shape(graph) \in {Shape(g) : g \in Serial(calls[1].start,
                                                  1..Len(calls))}

(***************************************************************************)
(* Properties of the scorer and the query extractor                        *)
(***************************************************************************)
\* the results put in the order in which their calls were issued (for
\* every query, the providers in their list order)
InIssueOrder(results) ==
  [i \in 1..Len(results) |->
     CHOOSE r \in Range(results) :
       /\ r.query = ((i - 1) \div Len(providers)) + 1
       /\ r.provider = providers[((i - 1) % Len(providers)) + 1]]

\* the scores of an AEOScore
ScoresOf(score) ==
  [overall |-> score.overall,
   citationValidation |-> score.citationValidation.score,
   competitiveGap |-> score.competitiveGap.score,
   topCompetitor |-> score.competitiveGap.topCompetitor,
   topCompetitorRate |-> score.competitiveGap.topCompetitorRate,
   yourCitationRate |-> score.competitiveGap.yourCitationRate,
   avgCompetitorCitationRate |->
     score.competitiveGap.avgCompetitorCitationRate]

\* scoreContent returned after the fan-out of validateCitability
FanOutReturned == FannedOut /\ pc = "done" /\ outcome = "returned"

\* C18: the scores scoreContent returns after the fan-out are those of the
\* same results taken in the order of issue, whatever the order in which
\* the calls completed, and the results are one per issued call, each
\* carrying the query and the provider of its call (a failed call's result
\* being the not-cited record).
C18_CompletionOrderIrrelevant ==
  FanOutReturned
    => /\ Len(probeResults) = Cardinality(issued)
       /\ ResultPairs(probeResults) = issued
       /\ \A i \in 1..Len(probeResults) :
            <<probeResults[i].query, probeResults[i].provider>> \in failed
              => probeResults[i] = FailedProbeResult(probeResults[i].query,
                                                     probeResults[i].provider)
       /\ ScoresOf(result)
            = ScoresOf(AEOScoreOf(structural,
                         CitationValidationOf(InIssueOrder(probeResults)),
                         competitors))

\* scoreContent returned from calls that completed in another order than
\* they were issued, with a cited and a not-cited result among them
C18_Witness ==
  /\ FanOutReturned
  /\ probeResults # InIssueOrder(probeResults)
  /\ \E i, j \in 1..Len(probeResults) :
       /\ probeResults[i].cited /\ probeResults[i].sentiment = "positive"
       /\ ~probeResults[j].cited
  /\ failed # {}

(***************************************************************************)
(* Markdown content.  A body is a sequence of sections; a section is the   *)
(* sequence of its lines, the heading first.  A line is its kind, its      *)
(* heading level, its words in lower case, whether it was written with     *)
(* capitals, and its closing mark ("" when it has none).                   *)
(***************************************************************************)
MaxSections == 3      \* at most this many sections in a content body

Line(kind, level, ws, mark) ==
  [kind |-> kind, level |-> level, words |-> ws, upper |-> TRUE,
   mark |-> mark]

\* ## What is Salesforce / Salesforce is a CRM platform for sales teams.
WhatIsSalesforce ==
  << Line("heading", 2, <<"what", "is", "salesforce">>, ""),
     Line("text", 0, <<"salesforce", "is", "a", "crm", "platform", "for",
                       "sales", "teams">>, ".") >>

\* ## Pricing / Plans start at a low price. / - low price plans
Pricing ==
  << Line("heading", 2, <<"pricing">>, ""),
     Line("text", 0, <<"plans", "start", "at", "a", "low", "price">>, "."),
     Line("list", 0, <<"low", "price", "plans">>, "") >>

\* ## FAQ / Q: Which CRM fits a startup?
Faq ==
  << Line("heading", 2, <<"faq">>, ""),
     Line("faq", 0, <<"which", "crm", "fits", "a", "startup">>, "?") >>

\* ### Which CRM fits a startup / Salesforce offers plans for startups.
WhichCrm ==
  << Line("heading", 3, <<"which", "crm", "fits", "a", "startup">>, ""),
     Line("text", 0, <<"salesforce", "offers", "plans", "for",
                       "startups">>, ".") >>

Sections == {WhatIsSalesforce, Pricing, Faq, WhichCrm}

\* the bodies made of up to MaxSections different sections
Bodies ==
  UNION { {b \in [1..n -> Sections] :
             \A i, j \in 1..n : i # j => b[i] # b[j]} : n \in 1..MaxSections }

\* '', '{}' and '{"@type": "Article"}'
SchemaMarkups == {"", "{}", "{\"@type\": \"Article\"}"}

Word(w) == [word |-> w, upper |-> TRUE]

\* the lines of a body, in order
RECURSIVE LinesOf(_)
LinesOf(body) ==
  IF body = <<>> THEN <<>> ELSE body[1] \o LinesOf(Tail(body))

\* the whitespace-separated tokens of a line in the plain text: the "#"s of
\* a heading are stripped, a list bullet and "Q:" are tokens of their own
Tokens(l) ==
  IF l.kind = "faq" THEN <<"q">> \o l.words
  ELSE IF l.kind = "list" THEN <<"-">> \o l.words
  ELSE l.words

\* countSyllables on the words of the catalogue
countSyllables(w) ==
  IF w \in {"salesforce"} THEN 3
  ELSE IF w \in {"platform", "sales", "pricing", "startup", "offers",
                 "startups"} THEN 2
  ELSE 1

RECURSIVE SumOver(_, _)
SumOver(f, S) ==
  IF S = {} THEN 0
  ELSE LET x == CHOOSE y \in S : TRUE IN f[x] + SumOver(f, S \ {x})

\* calculateReadabilityGrade, in tenths of a grade
calculateReadabilityGrade(ls) ==
  LET idx == 1..Len(ls)
      wordCount == SumOver([i \in idx |-> Len(Tokens(ls[i]))], idx)
      marks == Cardinality({i \in idx : ls[i].mark # ""})
      sentences ==
        marks + (IF Len(ls) > 0 /\ ls[Len(ls)].mark = "" THEN 1 ELSE 0)
      sentenceCount == Max(1, sentences)
      totalSyllables ==
        SumOver([i \in idx |->
                   SumOver([k \in 1..Len(Tokens(ls[i])) |->
                              countSyllables(Tokens(ls[i])[k])],
                           1..Len(Tokens(ls[i])))], idx)
      \* 10 * grade = num / (10 * sentenceCount * wordCount)
      num == 39 * wordCount * wordCount
               + 1180 * totalSyllables * sentenceCount
               - 1559 * sentenceCount * wordCount
  IN IF wordCount = 0 THEN 0
     ELSE RoundDiv(Max(0, num), 10 * sentenceCount * wordCount)

\* /\bis\b/ ... /\benables\b/ on a line's words
MatchesDirectAnswer(ws) ==
  \/ \E i \in 1..Len(ws) :
       ws[i] \in {"is", "are", "means", "provides", "offers", "enables"}
  \/ \E i \in 1..(Len(ws) - 1) :
       <<ws[i], ws[i + 1]>> \in
         {<<"the", "best">>, <<"refers", "to">>, <<"defined", "as">>}

\* the first line that is neither blank nor a heading, once the first
\* heading is removed; <<>> when there is none
firstParagraph(ls) ==
  LET rest == {i \in 1..Len(ls) : ls[i].kind # "heading"}
  IN IF rest = {} THEN <<>>
     ELSE Tokens(ls[CHOOSE i \in rest : \A j \in rest : i <= j])

\* occurrences of a one-word term in the lower-cased body
Occurrences(ls, term) ==
  SumOver([i \in 1..Len(ls) |->
             Cardinality({k \in 1..Len(ls[i].words) :
                            ls[i].words[k] = term.word})],
          1..Len(ls))

\* the factors calculateStructuralScore extracts from its arguments
StructuralFactors(body, schemaMarkup, brandName, keywords) ==
  LET ls == LinesOf(body)
      idx == 1..Len(ls)
      wordCount == SumOver([i \in idx |-> Len(Tokens(ls[i]))], idx)
      totalKeywordOccurrences ==
        SumOver([k \in 1..Len(keywords) |-> Occurrences(ls, keywords[k])],
                1..Len(keywords))
  IN [hasSchemaMarkup |->
        schemaMarkup # "" /\ schemaMarkup \in {"{\"@type\": \"Article\"}"},
      hasFaqSection |->
        \E i \in idx :
          \/ ls[i].kind = "heading" /\ ls[i].level <= 3
               /\ ls[i].words[1] = "faq"
          \/ ls[i].kind = "faq",
      headingCount |-> Cardinality({i \in idx : ls[i].kind = "heading"}),
      hasDirectAnswers |-> MatchesDirectAnswer(firstParagraph(ls)),
      hasStructuredLists |-> \E i \in idx : ls[i].kind = "list",
      keywordDensity |->
        IF wordCount > 0
        THEN RoundDiv(totalKeywordOccurrences * 10000, wordCount)
        ELSE 0,
      brandMentionCount |-> Occurrences(ls, brandName),
      wordCount |-> wordCount,
      readabilityGrade |-> calculateReadabilityGrade(ls)]

(***************************************************************************)
(* calculateStructuralScore as a pure function of a content item           *)
(***************************************************************************)
BrandName == Word("salesforce")
KeywordLists == {<<>>, <<Word("crm")>>}

StructuralScoreOf(body, schemaMarkup, keywords) ==
  calculateStructuralScore(
    StructuralFactors(body, schemaMarkup, BrandName, keywords))

InitStructural ==
  /\ op = "calculateStructuralScore"
  /\ pc = "call"
  /\ \E b \in Bodies, m \in SchemaMarkups, kw \in KeywordLists :
       content = [body |-> b, schemaMarkup |-> m, keywords |-> kw,
                  maxQueries |-> 0]
  /\ enabled = {}
  /\ providers = <<>>
  /\ probeQueries = 0
  /\ competitors = <<>>
  /\ skipValidation = FALSE
  /\ structural = NoStructural
  /\ pending = {}
  /\ probeResults = <<>>
  /\ cursor = <<0, 0>>
  /\ available = <<>>
  /\ probeSucceeded = FALSE
  /\ runs = <<>>
  /\ stored = {}
  /\ batch = NoBatch
  /\ issued = {}
  /\ consulted = {}
  /\ failed = {}
  /\ vetoed = {}
  /\ citationValidation = NoValidation
  /\ outcome = "none"
  /\ result = NoResult
  /\ GraphIdle
  /\ AppIdle

ApplyStructuralScore ==
  /\ op = "calculateStructuralScore" /\ pc = "call"
  /\ structural' = StructuralScoreOf(content.body, content.schemaMarkup,
                                     content.keywords)
  /\ outcome' = "returned"
  /\ pc' = "done"
  /\ UNCHANGED <<graphVars, content, appVars>>
  /\ UNCHANGED <<op, enabled, providers, probeQueries, competitors,
                 skipValidation, pending, probeResults, cursor, available,
                 probeSucceeded, runs, stored, batch, issued, consulted,
                 failed, vetoed, citationValidation, result>>

NextStructural == ApplyStructuralScore

SpecStructural == InitStructural /\ [][NextStructural]_vars

\* the orders the sections of a body can be put in
SectionOrders(n) ==
  {p \in [1..n -> 1..n] : \A i, j \in 1..n : i # j => p[i] # p[j]}

Permuted(body, p) == [i \in 1..Len(body) |-> body[p[i]]]

\* C19: calculateStructuralScore returns the same score and the same
\* factors for a content body and for every permutation of its sections,
\* the schema markup, the brand name and the keywords being the same.
C19_SectionOrderIrrelevant ==
  (op = "calculateStructuralScore" /\ pc = "done") =>
    \A p \in SectionOrders(Len(content.body)) :
      StructuralScoreOf(Permuted(content.body, p), content.schemaMarkup,
                        content.keywords) = structural

(***************************************************************************)
(* extractProbeQueries.  A question is its words in lower case, whether it *)
(* was written with capitals, and its closing mark; a confidence is in     *)
(* tenths.                                                                 *)
(***************************************************************************)
DefaultMaxQueries == 5    \* maxQueries: number = 5

Text(ws, upper, mark) == [words |-> ws, upper |-> upper, mark |-> mark]

\* the length of a token of the catalogue ("q" is "Q:", "-" the bullet)
Length(w) ==
  IF w \in {"a", "-"} THEN 1
  ELSE IF w \in {"is", "at", "q"} THEN 2
  ELSE IF w \in {"crm", "for", "low", "faq", "the"} THEN 3
  ELSE IF w \in {"what", "fits", "best"} THEN 4
  ELSE IF w \in {"sales", "teams", "plans", "start", "price", "which"} THEN 5
  ELSE IF w \in {"offers"} THEN 6
  ELSE IF w \in {"pricing", "startup"} THEN 7
  ELSE IF w \in {"platform", "startups"} THEN 8
  ELSE 10

\* the length of words joined by single spaces
Chars(ws) ==
  IF ws = <<>> THEN 0
  ELSE SumOver([i \in 1..Len(ws) |-> Length(ws[i])], 1..Len(ws))
         + Len(ws) - 1

\* lastWord.endsWith("s") && !endsWith("ss") && !endsWith("us")
usePlural(lastWord) ==
  lastWord \in {"is", "sales", "teams", "plans", "fits", "offers",
                "startups"}

\* the end of X in "Why X matters" / "Why X is important": 0 when the
\* heading is not of that form
WhyEnd(ws) ==
  LET ends == {i \in 3..Len(ws) :
                 \/ ws[i] \in {"matter", "matters"}
                 \/ ws[i] = "is" /\ i < Len(ws) /\ ws[i + 1] = "important"}
  IN IF ws # <<>> /\ ws[1] = "why" /\ ends # {}
     THEN CHOOSE i \in ends : \A j \in ends : i <= j
     ELSE 0

headingToQuestion(heading) ==
  LET ws == heading.words
  IN IF heading.mark = "?" THEN heading
     ELSE IF Len(ws) >= 3 /\ ws[1] = "how" /\ ws[2] = "to"
     THEN Text(ws, TRUE, "?")
     ELSE IF WhyEnd(ws) # 0
     THEN Text(<<"why", "does">> \o SubSeq(ws, 2, WhyEnd(ws) - 1)
                 \o <<"matter">>, TRUE, "?")
     ELSE IF Len(ws) >= 2 /\ ws[1] = "why"
     THEN Text(ws, heading.upper, "?")
     ELSE IF Len(ws) >= 3 /\ ws[1] = "when" /\ ws[2] = "to"
     THEN Text(ws, heading.upper, "?")
     ELSE IF Len(ws) >= 2 /\ ws[1] \in {"what", "where", "which", "who"}
     THEN Text(ws, heading.upper, "?")
     ELSE Text(<<"what", IF usePlural(ws[Len(ws)]) THEN "are" ELSE "is">>
                 \o ws, TRUE, "?")

\* the question of the first line that is not a heading and whose snippet
\* (the line without its last token) is longer than 20; NoTopic when none
NoTopic == Text(<<>>, FALSE, "")

extractTopicQuery(ls) ==
  LET snippet(l) ==
        IF Len(Tokens(l)) > 1
        THEN SubSeq(Tokens(l), 1, Len(Tokens(l)) - 1)
        ELSE Tokens(l)
      fit == {i \in 1..Len(ls) :
                ls[i].kind # "heading" /\ Chars(snippet(ls[i])) > 20}
  IN IF fit = {} THEN NoTopic
     ELSE Text(<<"what", "is">>
                 \o snippet(ls[CHOOSE i \in fit : \A j \in fit : i <= j]),
               TRUE, "?")

ExtractedQuery(query, source, confidence) ==
  [query |-> query, source |-> source, confidence |-> confidence]

\* steps 1 to 4: the candidates, in the order they are pushed
RECURSIVE HeadingQueries(_)
HeadingQueries(ls) ==
  IF ls = <<>> THEN <<>>
  ELSE LET l == ls[1]
       IN (IF l.kind = "heading" /\ l.level \in {2, 3}
              /\ Chars(l.words) >= 4
           THEN <<ExtractedQuery(
                    headingToQuestion(Text(l.words, l.upper, l.mark)),
                    "heading", 8)>>
           ELSE <<>>) \o HeadingQueries(Tail(ls))

RECURSIVE FaqQueries(_)
FaqQueries(ls) ==
  IF ls = <<>> THEN <<>>
  ELSE LET l == ls[1]
       IN (IF l.kind = "faq"
              /\ Chars(l.words) + (IF l.mark = "" THEN 0 ELSE 1) >= 5
           THEN <<ExtractedQuery(Text(l.words, l.upper, "?"), "faq", 9)>>
           ELSE <<>>) \o FaqQueries(Tail(ls))

TopicQueries(ls) ==
  IF extractTopicQuery(ls) = NoTopic THEN <<>>
  ELSE <<ExtractedQuery(extractTopicQuery(ls), "topic", 7)>>

RECURSIVE KeywordQueries(_)
KeywordQueries(keywords) ==
  IF keywords = <<>> THEN <<>>
  ELSE (IF Length(keywords[1].word) < 2 THEN <<>>
        ELSE <<ExtractedQuery(
                 Text(<<"what", "is", "the", "best", keywords[1].word>>,
                      TRUE, "?"),
                 "keyword", 6)>>) \o KeywordQueries(Tail(keywords))

CandidateQueries(markdown, keywords) ==
  HeadingQueries(LinesOf(markdown)) \o FaqQueries(LinesOf(markdown))
    \o TopicQueries(LinesOf(markdown)) \o KeywordQueries(keywords)

\* lower case, without what is not a letter, a digit or a space
Normalized(query) == SelectSeq(query.words, LAMBDA w : w # "-")

RECURSIVE Deduplicate(_, _)
Deduplicate(queries, seen) ==
  IF queries = <<>> THEN <<>>
  ELSE LET normalized == Normalized(queries[1].query)
       IN IF normalized # <<>> /\ normalized \notin seen
          THEN <<queries[1]>>
                 \o Deduplicate(Tail(queries), seen \cup {normalized})
          ELSE Deduplicate(Tail(queries), seen)

deduplicateQueries(queries) == Deduplicate(queries, {})

\* sort((a, b) => b.confidence - a.confidence): stable
RECURSIVE SortByConfidence(_)
SortByConfidence(queries) ==
  IF queries = <<>> THEN <<>>
  ELSE LET top == CHOOSE i \in 1..Len(queries) :
                    \A j \in 1..Len(queries) :
                      \/ queries[j].confidence < queries[i].confidence
                      \/ queries[j].confidence = queries[i].confidence
                           /\ i <= j
       IN <<queries[top]>>
            \o SortByConfidence(
                 [k \in 1..(Len(queries) - 1) |->
                    IF k < top THEN queries[k] ELSE queries[k + 1]])

extractProbeQueries(markdown, keywords, maxQueries) ==
  LET deduplicated ==
        SortByConfidence(
          deduplicateQueries(CandidateQueries(markdown, keywords)))
  IN SubSeq(deduplicated, 1, Min(maxQueries, Len(deduplicated)))

(***************************************************************************)
(* extractProbeQueries as a pure function of a content item                *)
(***************************************************************************)
ExtractKeywordLists == {<<>>, <<Word("crm")>>, <<Word("crm"), Word("a")>>}
MaxQueriesArgs == {1, 2, DefaultMaxQueries}

InitExtract ==
  /\ op = "extractProbeQueries"
  /\ pc = "call"
  /\ \E b \in Bodies, kw \in ExtractKeywordLists, n \in MaxQueriesArgs :
       content = [body |-> b, schemaMarkup |-> "", keywords |-> kw,
                  maxQueries |-> n]
  /\ enabled = {}
  /\ providers = <<>>
  /\ probeQueries = 0
  /\ competitors = <<>>
  /\ skipValidation = FALSE
  /\ structural = NoStructural
  /\ pending = {}
  /\ probeResults = <<>>
  /\ cursor = <<0, 0>>
  /\ available = <<>>
  /\ probeSucceeded = FALSE
  /\ runs = <<>>
  /\ stored = {}
  /\ batch = NoBatch
  /\ issued = {}
  /\ consulted = {}
  /\ failed = {}
  /\ vetoed = {}
  /\ citationValidation = NoValidation
  /\ outcome = "none"
  /\ result = NoResult
  /\ GraphIdle
  /\ AppIdle

ApplyExtractProbeQueries ==
  /\ op = "extractProbeQueries" /\ pc = "call"
  /\ result' = [kind |-> "ExtractedQueries",
                queries |-> extractProbeQueries(content.body,
                                                content.keywords,
                                                content.maxQueries)]
  /\ outcome' = "returned"
  /\ pc' = "done"
  /\ UNCHANGED <<graphVars, content, appVars>>
  /\ UNCHANGED <<op, enabled, providers, probeQueries, competitors,
                 skipValidation, structural, pending, probeResults, cursor,
                 available, probeSucceeded, runs, stored, batch, issued,
                 consulted, failed, vetoed, citationValidation>>

NextExtract == ApplyExtractProbeQueries

SpecExtract == InitExtract /\ [][NextExtract]_vars

Extracted == op = "extractProbeQueries" /\ pc = "done"

\* at most maxQueries entries, by non-increasing confidence, no two with
\* the same normalized text
RankedAndDistinct(out, maxQueries) ==
  /\ Len(out) <= maxQueries
  /\ \A i, j \in 1..Len(out) :
       i < j => /\ out[i].confidence >= out[j].confidence
                /\ Normalized(out[i].query) # Normalized(out[j].query)

\* of the candidates that share a normalized text, the entry of the output
\* is one with the highest confidence
HighestKept(out, candidates) ==
  \A i \in 1..Len(out), k \in 1..Len(candidates) :
    Normalized(candidates[k].query) = Normalized(out[i].query)
      => candidates[k].confidence <= out[i].confidence

\* C20: extractProbeQueries returns at most maxQueries entries, sorted by
\* non-increasing confidence (FAQ 0.9, heading 0.8, topic 0.7, keyword
\* 0.6), no two of them with the same normalized text, and of the
\* candidates that share a normalized text the one kept has the highest
\* confidence.
C20_HighestConfidenceDistinct ==
  Extracted =>
    /\ RankedAndDistinct(result.queries, content.maxQueries)
    /\ \A i \in 1..Len(result.queries) :
         result.queries[i].confidence =
           (CASE result.queries[i].source = "faq" -> 9
              [] result.queries[i].source = "heading" -> 8
              [] result.queries[i].source = "topic" -> 7
              [] OTHER -> 6)
    /\ HighestKept(result.queries,
                   CandidateQueries(content.body, content.keywords))

\* what holds of every call: the output is ranked, distinct and bounded
C20_RankedAndDistinct ==
  Extracted => RankedAndDistinct(result.queries, content.maxQueries)

(***************************************************************************)
(* computeAvgSentiment as a pure function of the sentiments of a           *)
(* competitor's cited occurrences                                          *)
(***************************************************************************)
MaxSentiments == 4    \* at most this many cited occurrences with a sentiment

Sentiments == {"positive", "neutral", "negative"}

SentimentCount(sentiments, s) ==
  Cardinality({i \in 1..Len(sentiments) : sentiments[i] = s})

computeAvgSentiment(sentiments) ==
  LET counts == [s \in Sentiments |-> SentimentCount(sentiments, s)]
  IN IF Len(sentiments) = 0 THEN "neutral"
     ELSE IF counts["positive"] >= counts["negative"]
               /\ counts["positive"] >= counts["neutral"]
     THEN "positive"
     ELSE IF counts["negative"] > counts["positive"]
               /\ counts["negative"] >= counts["neutral"]
     THEN "negative"
     ELSE "neutral"

InitSentiment ==
  /\ op = "computeAvgSentiment"
  /\ pc = "call"
  /\ \E n \in 0..MaxSentiments : \E ss \in [1..n -> Sentiments] :
       content = [sentiments |-> ss]
  /\ enabled = {}
  /\ providers = <<>>
  /\ probeQueries = 0
  /\ competitors = <<>>
  /\ skipValidation = FALSE
  /\ structural = NoStructural
  /\ pending = {}
  /\ probeResults = <<>>
  /\ cursor = <<0, 0>>
  /\ available = <<>>
  /\ probeSucceeded = FALSE
  /\ runs = <<>>
  /\ stored = {}
  /\ batch = NoBatch
  /\ issued = {}
  /\ consulted = {}
  /\ failed = {}
  /\ vetoed = {}
  /\ citationValidation = NoValidation
  /\ outcome = "none"
  /\ result = NoResult
  /\ GraphIdle
  /\ AppIdle

ApplyAvgSentiment ==
  /\ op = "computeAvgSentiment" /\ pc = "call"
  /\ result' = [kind |-> "Sentiment",
                avgSentiment |-> computeAvgSentiment(content.sentiments)]
  /\ outcome' = "returned"
  /\ pc' = "done"
  /\ UNCHANGED <<graphVars, content, appVars>>
  /\ UNCHANGED <<op, enabled, providers, probeQueries, competitors,
                 skipValidation, structural, pending, probeResults, cursor,
                 available, probeSucceeded, runs, stored, batch, issued,
                 consulted, failed, vetoed, citationValidation>>

NextSentiment == ApplyAvgSentiment

SpecSentiment == InitSentiment /\ [][NextSentiment]_vars

\* C21: the dominant sentiment is "negative" only when the negative count
\* is strictly greater than both other counts, and a tie between neutral
\* and negative, both above positive, gives "neutral".
C21_TiesAvoidNegative ==
  (op = "computeAvgSentiment" /\ pc = "done") =>
    LET pos == SentimentCount(content.sentiments, "positive")
        neu == SentimentCount(content.sentiments, "neutral")
        neg == SentimentCount(content.sentiments, "negative")
    IN /\ result.avgSentiment = "negative" => (neg > pos /\ neg > neu)
       /\ (neu = neg /\ neu > pos) => result.avgSentiment = "neutral"

(***************************************************************************)
(* runCompetitiveAnalysis after its probes: the competitor profiles and    *)
(* generateInsights, as a pure function of allResults.  A result is its    *)
(* category, whether the brand was cited and the competitors cited.        *)
(***************************************************************************)
MaxCategoryProbes == 10   \* at most this many results of the first category
MaxOtherProbes == 2       \* at most this many results of the second one

\* t results of a category, the brand cited in the first b of them and the
\* competitors comps in the last k
CategoryResults(category, t, b, k, comps) ==
  [i \in 1..t |->
     [category |-> category, brandCited |-> i <= b,
      competitorsCited |-> IF i > t - k THEN Range(comps) ELSE {}]]

RECURSIVE CategoryKeys(_, _)
\* the keys of a Map filled from the results, in insertion order
CategoryKeys(results, seen) ==
  IF results = <<>> THEN <<>>
  ELSE IF results[1].category \in seen
       THEN CategoryKeys(Tail(results), seen)
       ELSE <<results[1].category>>
              \o CategoryKeys(Tail(results), seen \cup {results[1].category})

CategoryTotal(results, category) ==
  Cardinality({i \in 1..Len(results) : results[i].category = category})

\* the fields of buildCompetitorProfile's result that generateInsights reads
buildCompetitorProfile(competitor, results, allCategories) ==
  LET cited == {i \in 1..Len(results) :
                  competitor \in results[i].competitorsCited}
      citedIn(c) == Cardinality({i \in cited : results[i].category = c})
  IN [name |-> competitor,
      citationRate |->
        IF Len(results) > 0
        THEN RoundDiv(100 * Cardinality(cited), Len(results))
        ELSE 0,
      strongCategories |->
        SelectSeq(allCategories,
                  LAMBDA c : /\ CategoryTotal(results, c) # 0
                             /\ 10 * citedIn(c)
                                  >= 6 * CategoryTotal(results, c))]

\* profile.citationRate > brandCitationRate + 20
IsThreat(citationRate, brandCitationRate) ==
  citationRate > brandCitationRate + 20

\* total > 0 && cited / total > 0.7
IsStrengthAbove(cited, total) == total > 0 /\ 10 * cited > 7 * total
\* total > 0 && cited / total >= 0.7
IsStrength(cited, total) == total > 0 /\ 10 * cited >= 7 * total

\* total >= 2 && cited === 0
IsWeakness(cited, total) == total >= 2 /\ cited = 0

Insight(type, about, relatedCompetitor) ==
  [type |-> type, about |-> about, relatedCompetitor |-> relatedCompetitor]

generateInsights(brandCitationRate, brandResults, competitorProfiles) ==
  LET idx == 1..Len(brandResults)
      brandCitedQueries == SelectSeq(brandResults, LAMBDA r : r.brandCited)
      brandCitedCategories == CategoryKeys(brandCitedQueries, {})
      brandCategoryTotals == CategoryKeys(brandResults, {})
      citedOf(c) == CategoryTotal(brandCitedQueries, c)
      totalOf(c) == CategoryTotal(brandResults, c)
      unclaimed ==
        SelectSeq([i \in idx |-> i],
                  LAMBDA i : /\ ~brandResults[i].brandCited
                             /\ brandResults[i].competitorsCited = {})
      threats ==
        SelectSeq(competitorProfiles,
                  LAMBDA p : IsThreat(p.citationRate, brandCitationRate))
      strengths ==
        SelectSeq(brandCitedCategories,
                  LAMBDA c : IsStrength(citedOf(c), totalOf(c)))
      weaknesses ==
        SelectSeq(brandCategoryTotals,
                  LAMBDA c : IsWeakness(citedOf(c), totalOf(c)))
      strongIn(c) ==
        SelectSeq(competitorProfiles,
                  LAMBDA p : \E k \in 1..Len(p.strongCategories) :
                               p.strongCategories[k] = c)
  IN [i \in 1..Len(unclaimed) |-> Insight("opportunity", unclaimed[i], "")]
       \o [i \in 1..Len(threats) |->
             Insight("threat", threats[i].name, threats[i].name)]
       \o [i \in 1..Len(strengths) |-> Insight("strength", strengths[i], "")]
       \o [i \in 1..Len(weaknesses) |->
             Insight("weakness", weaknesses[i],
                     IF strongIn(weaknesses[i]) = <<>> THEN ""
                     ELSE strongIn(weaknesses[i])[1].name)]

\* runCompetitiveAnalysis from "Calculate brand citation rate" on
AnalysisOf(comps, allResults) ==
  LET brandCitedCount ==
        Cardinality({i \in 1..Len(allResults) : allResults[i].brandCited})
      brandCitationRate ==
        IF Len(allResults) > 0
        THEN RoundDiv(100 * brandCitedCount, Len(allResults))
        ELSE 0
      allCategories == CategoryKeys(allResults, {})
      competitorProfiles ==
        [k \in 1..Len(comps) |->
           buildCompetitorProfile(comps[k], allResults, allCategories)]
  IN [kind |-> "CompetitiveAnalysis",
      brandCitationRate |-> brandCitationRate,
      competitors |-> competitorProfiles,
      insights |-> generateInsights(brandCitationRate, allResults,
                                    competitorProfiles)]

InitInsights ==
  /\ op = "generateInsights"
  /\ pc = "call"
  /\ \E t1 \in 0..MaxCategoryProbes, t2 \in 0..MaxOtherProbes :
       \E b1 \in 0..t1, k1 \in 0..t1, b2 \in 0..t2, k2 \in 0..t2 :
         content =
           [competitors |-> CompetitorList(1),
            results |->
              CategoryResults("best-of", t1, b1, k1, CompetitorList(1))
                \o CategoryResults("comparison", t2, b2, k2,
                                   CompetitorList(1))]
  /\ enabled = {}
  /\ providers = <<>>
  /\ probeQueries = 0
  /\ competitors = <<>>
  /\ skipValidation = FALSE
  /\ structural = NoStructural
  /\ pending = {}
  /\ probeResults = <<>>
  /\ cursor = <<0, 0>>
  /\ available = <<>>
  /\ probeSucceeded = FALSE
  /\ runs = <<>>
  /\ stored = {}
  /\ batch = NoBatch
  /\ issued = {}
  /\ consulted = {}
  /\ failed = {}
  /\ vetoed = {}
  /\ citationValidation = NoValidation
  /\ outcome = "none"
  /\ result = NoResult
  /\ GraphIdle
  /\ AppIdle

ApplyInsights ==
  /\ op = "generateInsights" /\ pc = "call"
  /\ result' = AnalysisOf(content.competitors, content.results)
  /\ outcome' = "returned"
  /\ pc' = "done"
  /\ UNCHANGED <<graphVars, content, appVars>>
  /\ UNCHANGED <<op, enabled, providers, probeQueries, competitors,
                 skipValidation, structural, pending, probeResults, cursor,
                 available, probeSucceeded, runs, stored, batch, issued,
                 consulted, failed, vetoed, citationValidation>>

NextInsights == ApplyInsights

SpecInsights == InitInsights /\ [][NextInsights]_vars

InsightsMade == op = "generateInsights" /\ pc = "done"

\* how many insights of a type are about a subject
InsightCount(type, about) ==
  Cardinality({i \in 1..Len(result.insights) :
                 /\ result.insights[i].type = type
                 /\ result.insights[i].about = about})

\* cited / total of the results, as a rounded percentage
RatePercent(cited) ==
  IF Len(content.results) = 0 THEN 0
  ELSE RoundDiv(100 * Cardinality(cited), Len(content.results))

ProbesOf(category) ==
  {i \in 1..Len(content.results) : content.results[i].category = category}

BrandCitedIn(S) == {i \in S : content.results[i].brandCited}

C25_RunStatusMatchesResults ==
  (op \in {"runBatchProbes", "runSingleProbe"} /\ pc = "done"
     /\ outcome = "returned") =>
    \A r \in 1..Len(runs) :
      /\ runs[r].updates = 1
      /\ runs[r].status \in {"completed", "failed"}
      /\ runs[r].status = "completed" <=> (\E row \in stored : row.run = r)

(***************************************************************************)
(* SettingsPage: the scoring weight sliders.  Weights are in hundredths.   *)
(***************************************************************************)
MaxWeight == 120      \* weights beyond +/- 1.20 are not followed further

\* the values a slider gives: min 0, max 1, step 0.05
SliderValues == {5 * i : i \in 0..20}

WeightFields == {"structuralWeight", "citationWeight", "competitiveWeight"}

updateScoringWeight(prev, field, value) ==
  LET updated == [prev EXCEPT ![field] = value]
      sum == updated.structuralWeight + updated.citationWeight
               + updated.competitiveWeight
      structuralWeight == RoundDiv(100 * updated.structuralWeight, sum)
      citationWeight == RoundDiv(100 * updated.citationWeight, sum)
  IN IF sum > 0
     THEN [structuralWeight |-> structuralWeight,
           citationWeight |-> citationWeight,
           competitiveWeight |-> 100 - structuralWeight - citationWeight]
     ELSE updated

InitWeights ==
  /\ op = "SettingsPage"
  /\ Idle
  /\ GraphIdle
  /\ AppIdle

UpdateScoringWeight(field, value) ==
  /\ op = "SettingsPage"
  /\ page' = updateScoringWeight(page, field, value)
  /\ \A f \in WeightFields : page'[f] \in -MaxWeight..MaxWeight
  /\ UNCHANGED <<baseVars, graphVars, settings, db, jobs>>

NextWeights ==
  \E field \in WeightFields, value \in SliderValues :
    UpdateScoringWeight(field, value)

SpecWeights == InitWeights /\ [][NextWeights]_vars

\* C30: after any sequence of updateScoringWeight calls from the defaults,
\* each of the three weights is within [0, 1] and they sum to exactly 1.00.
C30_WeightsNormalized ==
  op = "SettingsPage" =>
    /\ \A field \in WeightFields : page[field] \in 0..100
    /\ page.structuralWeight + page.citationWeight
         + page.competitiveWeight = 100

(***************************************************************************)
(* Settings: getSettings / updateSettings and the /api/settings handlers.  *)
(* An API key is a string of the catalogue; a masked key is its number of  *)
(* stars and its last four characters.                                     *)
(***************************************************************************)
MaxRows == 1          \* at most this many Brand, Probe, CitationResult rows

LongKey == "sk-abcdefgh1234"
ShortKey == "sk-1"

KeyLength(key) ==
  IF key = "" THEN 0 ELSE IF key = ShortKey THEN 4 ELSE 15

\* key.slice(-4)
LastFour(key) == IF key = LongKey THEN "1234" ELSE key

Clear(key) == [stars |-> 0, text |-> key]
Undefined == [stars |-> -1, text |-> ""]

maskApiKey(key) ==
  IF key = "" \/ KeyLength(key) < 8 THEN Undefined
  ELSE [stars |-> KeyLength(key) - 4, text |-> LastFour(key)]

\* the response body: only the top-level fields openaiApiKey ... are masked
\* (apiKeyFields[p] = "" stands for a field that is absent)
maskSettingsKeys(st) ==
  [kind |-> "Settings",
   providers |->
     [p \in SettingsProviders |->
        [enabled |-> st.providers[p].enabled,
         apiKey |-> Clear(st.providers[p].apiKey)]],
   scoring |-> st.scoring,
   general |-> st.general,
   apiKeyFields |->
     [p \in SettingsProviders |->
        IF st.apiKeyFields[p] = "" THEN Clear("")
        ELSE maskApiKey(st.apiKeyFields[p])]]

RECURSIVE deepMerge(_, _, _)
\* depth: how many levels of plain objects target and source have
deepMerge(target, source, depth) ==
  IF depth = 0 THEN source
  ELSE [k \in DOMAIN target \cup DOMAIN source |->
          IF k \notin DOMAIN source THEN target[k]
          ELSE IF k \notin DOMAIN target THEN source[k]
          ELSE deepMerge(target[k], source[k], depth - 1)]

\* the sections of AppSettings: providers holds objects, the others values
updateSettings(current, partial) ==
  [k \in DOMAIN current |->
     IF k \notin DOMAIN partial THEN current[k]
     ELSE deepMerge(current[k], partial[k],
                    IF k = "providers" THEN 2 ELSE 1)]

\* request bodies of PUT /api/settings
SettingsBodies ==
  { [scoring |-> defaultSettings],
    [apiKeyFields |-> [openai |-> LongKey]],
    [general |-> [brandName |-> "Acme", brandDomain |-> "acme.com"]] }

PutSettings(body) ==
  /\ op = "idle"
  /\ settings' = updateSettings(settings, body)
  /\ result' = maskSettingsKeys(settings')
  /\ UNCHANGED <<op, pc, enabled, providers, probeQueries, competitors,
                 skipValidation, structural, pending, probeResults, cursor,
                 available, probeSucceeded, runs, stored, batch, issued,
                 consulted, failed, vetoed, citationValidation, outcome>>
  /\ UNCHANGED <<graphVars, content, page, db, jobs>>

GetSettings ==
  /\ op = "idle"
  /\ result' = maskSettingsKeys(settings)
  /\ UNCHANGED <<op, pc, enabled, providers, probeQueries, competitors,
                 skipValidation, structural, pending, probeResults, cursor,
                 available, probeSucceeded, runs, stored, batch, issued,
                 consulted, failed, vetoed, citationValidation, outcome>>
  /\ UNCHANGED <<graphVars, content, appVars>>

(***************************************************************************)
(* Onboarding: GET and POST /api/onboarding.  runBatchProbes is followed   *)
(* here only by the CitationResult rows it stores.                         *)
(***************************************************************************)
requestVars == <<op, pc, enabled, providers, probeQueries, competitors,
                 skipValidation, structural, pending, probeResults, cursor,
                 available, probeSucceeded, runs, stored, batch, issued,
                 consulted, failed, vetoed, citationValidation, outcome>>

\* !!settings.openaiApiKey || ... : the top-level fields
hasProviderKey(st) == \E p \in SettingsProviders : st.apiKeyFields[p] # ""

OnboardingSteps(st, d) ==
  [brand |-> d.brands > 0,
   providers |-> hasProviderKey(st),
   probes |-> d.probes > 0,
   firstRun |-> d.citationResults > 0]

AllSteps(steps) ==
  steps.brand /\ steps.providers /\ steps.probes /\ steps.firstRun

GetOnboarding ==
  /\ op = "idle"
  /\ LET steps == OnboardingSteps(settings, db)
     IN result' = [kind |-> "OnboardingStatus",
                   setupComplete |-> AllSteps(steps), steps |-> steps]
  /\ UNCHANGED <<requestVars, graphVars, content, appVars>>

\* step "brand": data.name is empty (400) or a brand is created (201)
OnboardingBrand(valid) ==
  /\ op = "idle"
  /\ IF ~valid
     THEN /\ result' = [kind |-> "Onboarding", step |-> "brand", status |-> 400]
          /\ UNCHANGED db
     ELSE /\ db.brands < MaxRows
          /\ db' = [db EXCEPT !.brands = @ + 1]
          /\ result' = [kind |-> "Onboarding", step |-> "brand", status |-> 201]
  /\ UNCHANGED <<requestVars, graphVars, content, settings, page, jobs>>

\* the keys a providers step may carry: provider -> key ("" when absent)
ProviderKeyData ==
  { [p \in SettingsProviders |-> ""],
    [p \in SettingsProviders |-> IF p = "openai" THEN LongKey ELSE ""] }

providerSettings(data) ==
  [p \in {q \in SettingsProviders : data[q] # ""} |->
     [enabled |-> TRUE, apiKey |-> data[p]]]

OnboardingProviders(data) ==
  /\ op = "idle"
  /\ settings' = updateSettings(settings, [providers |-> providerSettings(data)])
  /\ result' = [kind |-> "Onboarding", step |-> "providers", status |-> 200]
  /\ UNCHANGED <<requestVars, graphVars, content, page, db, jobs>>

\* step "probes": found = the brand of data.brandId exists, n = |data.probes|
OnboardingProbes(found, n) ==
  /\ op = "idle"
  /\ found => db.brands > 0
  /\ IF ~found
     THEN /\ result' = [kind |-> "Onboarding", step |-> "probes", status |-> 404]
          /\ UNCHANGED db
     ELSE /\ db.probes + n <= MaxRows
          /\ db' = [db EXCEPT !.probes = @ + n]
          /\ result' = [kind |-> "Onboarding", step |-> "probes", status |-> 201]
  /\ UNCHANGED <<requestVars, graphVars, content, settings, page, jobs>>

\* step "first-run": runBatchProbes stores r results, or rejects (500)
OnboardingFirstRun(r, rejects) ==
  /\ op = "idle"
  /\ r > 0 => db.probes > 0
  /\ db.citationResults + r <= MaxRows
  /\ IF rejects
     THEN /\ r = 0
          /\ result' = [kind |-> "Onboarding", step |-> "first-run",
                        status |-> 500]
          /\ UNCHANGED <<db, settings>>
     ELSE LET d == [db EXCEPT !.citationResults = @ + r]
              allComplete == AllSteps(OnboardingSteps(settings, d))
          IN /\ db' = d
             /\ settings' =
                  IF allComplete
                  THEN updateSettings(settings,
                         [general |-> [brandName |-> "", brandDomain |-> "",
                                       setupComplete |-> TRUE]])
                  ELSE settings
             /\ result' = [kind |-> "FirstRun", status |-> 200,
                           setupComplete |-> allComplete]
  /\ UNCHANGED <<requestVars, graphVars, content, page, jobs>>

NextApp ==
  \/ \E body \in SettingsBodies : PutSettings(body)
  \/ GetSettings
  \/ GetOnboarding
  \/ \E valid \in BOOLEAN : OnboardingBrand(valid)
  \/ \E data \in ProviderKeyData : OnboardingProviders(data)
  \/ \E found \in BOOLEAN, n \in 0..1 : OnboardingProbes(found, n)
  \/ \E r \in 0..1, rejects \in BOOLEAN : OnboardingFirstRun(r, rejects)
  \/ StartScoreContent

SpecApp == Init /\ [][NextApp]_vars

\* C23: after the scoring weights were saved, a scoreContent that returned
\* reports them in its three sub-scores and computes overall with them.
C23_ScoreUsesSettingsWeights ==
  (op = "scoreContent" /\ pc = "done" /\ outcome = "returned") =>
    LET sc == settings.scoring
    IN /\ 10 * result.structural.weight = sc.structuralWeight
       /\ 10 * result.citationValidation.weight = sc.citationWeight
       /\ 10 * result.competitiveGap.weight = sc.competitiveWeight
       /\ result.overall =
            RoundDiv(result.structural.score * sc.structuralWeight
                       + result.citationValidation.score * sc.citationWeight
                       + result.competitiveGap.score * sc.competitiveWeight,
                     100)

StoredKeys(st) ==
  {st.providers[p].apiKey : p \in SettingsProviders}
    \cup {st.apiKeyFields[p] : p \in SettingsProviders}

\* C28: a response of GET or PUT /api/settings holds no provider key in
\* clear text; every stored key of at least 8 characters is returned with
\* all but its last four characters replaced by stars.
C28_NoClearKeyInResponse ==
  result.kind = "Settings" =>
    \A p \in SettingsProviders :
      /\ KeyLength(settings.providers[p].apiKey) >= 8 =>
           result.providers[p].apiKey =
             [stars |-> KeyLength(settings.providers[p].apiKey) - 4,
              text |-> LastFour(settings.providers[p].apiKey)]
      /\ KeyLength(settings.apiKeyFields[p]) >= 8 =>
           result.apiKeyFields[p] =
             [stars |-> KeyLength(settings.apiKeyFields[p]) - 4,
              text |-> LastFour(settings.apiKeyFields[p])]

\* the four steps have taken effect: a brand, a stored provider key, a
\* probe and a citation result exist
StepsDone ==
  /\ db.brands > 0
  /\ \E p \in SettingsProviders :
       settings.providers[p].enabled /\ settings.providers[p].apiKey # ""
  /\ db.probes > 0
  /\ db.citationResults > 0

\* C29: once the four steps have succeeded and a citation result is stored,
\* the first-run response and every GET /api/onboarding report
\* setupComplete = true with all four steps complete.
C29_OnboardingCompletes ==
  StepsDone =>
    /\ result.kind = "FirstRun" => result.setupComplete
    /\ result.kind = "OnboardingStatus" =>
         result.setupComplete /\ AllSteps(result.steps)

\* C29, second part: the first-run step leaves the brand name and domain of
\* settings.general as they were.
C29_GeneralKept ==
  [][(\E r \in 0..1 : OnboardingFirstRun(r, FALSE)) =>
       /\ settings'.general.brandName = settings.general.brandName
       /\ settings'.general.brandDomain = settings.general.brandDomain]_vars

(***************************************************************************)
(* Scheduler: scheduleJob / stopJob, the cron ticks and handlers, and the  *)
(* /api/scheduling handlers.  meta.isRunning is true exactly while the     *)
(* wrappedHandler that set it awaits its handler.                          *)
(***************************************************************************)
MaxSchedules == 2      \* at most this many MonitoringSchedule rows created
MaxMetas == 3          \* at most this many registrations

ScheduleIds == 1..MaxSchedules

RegisteredIds(j) == {e.id : e \in j.registry}

isRunning(j, meta) == \E x \in j.running : x.meta = meta

\* scheduleJob after cron.validate passed: the existing entry is stopped
\* and deleted, a new meta with isRunning = false is registered
scheduleJob(j, id) ==
  [j EXCEPT !.registry = {e \in @ : e.id # id}
                           \cup {[id |-> id, meta |-> j.metas + 1,
                                  lastError |-> FALSE]},
            !.metas = @ + 1]

stopJob(j, id) == [j EXCEPT !.registry = {e \in @ : e.id # id}]

\* POST /api/scheduling; body: "invalid" fails the schema, "badCron" has a
\* cron expression cron.validate rejects, "valid" is accepted
PostScheduling(body) ==
  /\ op = "idle"
  /\ IF body = "invalid"
     THEN /\ result' = [kind |-> "Scheduling", method |-> "POST",
                        status |-> 400, id |-> 0]
          /\ UNCHANGED <<db, jobs>>
     ELSE LET id == db.created + 1
          IN /\ id <= MaxSchedules
             /\ jobs.metas < MaxMetas
             /\ db' = [db EXCEPT !.created = id, !.schedules = @ \cup {id}]
             /\ IF body = "badCron"
                THEN /\ result' = [kind |-> "Scheduling", method |-> "POST",
                                   status |-> 500, id |-> id]
                     /\ UNCHANGED jobs
                ELSE /\ jobs' = scheduleJob(jobs, id)
                     /\ result' = [kind |-> "Scheduling", method |-> "POST",
                                   status |-> 201, id |-> id]
  /\ UNCHANGED <<requestVars, graphVars, content, settings, page>>

DeleteScheduling(jobId) ==
  /\ op = "idle"
  /\ IF jobId \notin db.schedules
     THEN /\ result' = [kind |-> "Scheduling", method |-> "DELETE",
                        status |-> 404, id |-> jobId]
          /\ UNCHANGED <<db, jobs>>
     ELSE /\ jobs' = stopJob(jobs, jobId)
          /\ db' = [db EXCEPT !.schedules = @ \ {jobId}]
          /\ result' = [kind |-> "Scheduling", method |-> "DELETE",
                        status |-> 200, id |-> jobId]
  /\ UNCHANGED <<requestVars, graphVars, content, settings, page>>

\* scheduleJob called again for an id that is registered
Reschedule(id, validCron) ==
  /\ op = "idle"
  /\ id \in RegisteredIds(jobs)
  /\ IF validCron
     THEN /\ jobs.metas < MaxMetas
          /\ jobs' = scheduleJob(jobs, id)
          /\ result' = [kind |-> "scheduleJob", threw |-> FALSE]
     ELSE /\ result' = [kind |-> "scheduleJob", threw |-> TRUE]
          /\ UNCHANGED jobs
  /\ UNCHANGED <<requestVars, graphVars, content, settings, page, db>>

\* a cron tick of a task that was not stopped: wrappedHandler up to its await
Tick(id) ==
  /\ op = "idle"
  /\ id \in RegisteredIds(jobs)
  /\ LET e == CHOOSE r \in jobs.registry : r.id = id
     IN IF isRunning(jobs, e.meta)
        THEN UNCHANGED jobs
        ELSE jobs' = [jobs EXCEPT
                        !.registry = (@ \ {e})
                                       \cup {[e EXCEPT !.lastError = FALSE]},
                        !.running = @ \cup {[id |-> e.id, meta |-> e.meta]}]
  /\ UNCHANGED <<requestVars, result, graphVars, content, settings, page, db>>

\* the handler of execution x settles: catch records lastError, finally
\* resets isRunning
HandlerSettles(x, throws) ==
  /\ op = "idle"
  /\ x \in jobs.running
  /\ jobs' = [jobs EXCEPT
                !.running = @ \ {x},
                !.registry = {IF e.meta = x.meta
                              THEN [e EXCEPT !.lastError = throws] ELSE e :
                              e \in @}]
  /\ UNCHANGED <<requestVars, result, graphVars, content, settings, page, db>>

NextSchedule ==
  \/ \E body \in {"invalid", "badCron", "valid"} : PostScheduling(body)
  \/ \E jobId \in ScheduleIds : DeleteScheduling(jobId)
  \/ \E id \in ScheduleIds, validCron \in BOOLEAN : Reschedule(id, validCron)
  \/ \E id \in ScheduleIds : Tick(id)
  \/ \E id \in ScheduleIds, meta \in 1..MaxMetas, throws \in BOOLEAN :
       HandlerSettles([id |-> id, meta |-> meta], throws)

SpecSchedule == Init /\ [][NextSchedule]_vars

\* C24: for any job id at most one execution of its handler is in flight.
C24_NoOverlappingRuns ==
  \A id \in ScheduleIds : Cardinality({x \in jobs.running : x.id = id}) <= 1

\* C27: after POST or DELETE /api/scheduling returned, a MonitoringSchedule
\* row with id X exists if and only if a job with id X is registered.
C27_RowsMatchRegistry ==
  result.kind = "Scheduling" => db.schedules = RegisteredIds(jobs)

(***************************************************************************)
(* Alerts: runAlertChecks for one brand with one active probe.  runs holds *)
(* the completed runs of the probe, oldest first (cited: some result of    *)
(* the run was cited; rows older than threshold + 1 runs are never read    *)
(* and are dropped); calls holds the checks of the invocations.  All       *)
(* invocations followed here happen within 24 hours, so every Alert row    *)
(* is inside daysAgo(1).                                                   *)
(***************************************************************************)
MaxAlertChecks == 2    \* at most this many runAlertChecks invocations

citationLostThreshold == 3

CitationLost == "citation-lost"
CitationGained == "citation-gained"

\* checkCitationLost up to the findFirst: threshold + 1 runs, the oldest
\* cited, the last threshold runs all missed
lostCondition(recentRuns, threshold) ==
  /\ Len(recentRuns) >= threshold + 1
  /\ recentRuns[threshold + 1]
  /\ \A i \in 1..threshold : ~recentRuns[i]

\* checkCitationGained up to the findFirst: cited now and not before
gainedCondition(recentRuns) ==
  /\ Len(recentRuns) >= 2
  /\ recentRuns[1]
  /\ ~recentRuns[2]

AlertRow(type) == [type |-> type, probe |-> 1]

\* a check of an invocation: pc is where it is suspended
AlertCheck(type, applies) ==
  [type |-> type, pc |-> IF applies THEN "findFirst" ELSE "done"]

InitAlerts == op = "runAlertChecks" /\ Idle /\ GraphIdle /\ AppIdle

alertVars == <<op, pc, enabled, providers, probeQueries, competitors,
               skipValidation, structural, pending, probeResults, cursor,
               available, probeSucceeded, stored, batch, issued, consulted,
               failed, vetoed, citationValidation, outcome, result,
               graph, log, content, settings, page, jobs>>

\* citationRun.findMany: the completed runs of the probe, newest first
RECURSIVE recentRuns(_)
recentRuns(rows) ==
  IF rows = <<>> THEN <<>>
  ELSE recentRuns(Tail(rows)) \o <<rows[1].cited>>

\* the existing Alert rows of a type for the probe
AlertsOf(type, alerts) ==
  {i \in 1..Len(alerts) : alerts[i] = AlertRow(type)}

\* a CitationRun of the probe completes
CompleteRun(cited) ==
  /\ op = "runAlertChecks"
  /\ LET rows == runs \o <<[probe |-> 1, status |-> "completed",
                              cited |-> cited]>>
     IN runs' = IF Len(rows) > citationLostThreshold + 1
                THEN Tail(rows) ELSE rows
  /\ runs' # runs
  /\ UNCHANGED <<alertVars, calls, db>>

\* runAlertChecks starts its checks; each runs to its alert.findFirst
StartAlertChecks ==
  /\ op = "runAlertChecks"
  /\ Len(calls) < 2 * MaxAlertChecks
  /\ calls' = calls \o
       <<AlertCheck(CitationLost,
                    lostCondition(recentRuns(runs), citationLostThreshold)),
         AlertCheck(CitationGained, gainedCondition(recentRuns(runs)))>>
  /\ UNCHANGED <<alertVars, runs, db>>

\* alert.findFirst of check k returns
AlertFindFirst(k) ==
  /\ op = "runAlertChecks"
  /\ k \in 1..Len(calls)
  /\ calls[k].pc = "findFirst"
  /\ LET existingAlert == AlertsOf(calls[k].type, db.alerts) # {}
     IN calls' = [calls EXCEPT
                    ![k].pc = IF existingAlert THEN "done" ELSE "create"]
  /\ UNCHANGED <<alertVars, runs, db>>

\* createAlert of check k
AlertCreate(k) ==
  /\ op = "runAlertChecks"
  /\ k \in 1..Len(calls)
  /\ calls[k].pc = "create"
  /\ db' = [db EXCEPT !.alerts = Append(@, AlertRow(calls[k].type))]
  /\ calls' = [calls EXCEPT ![k].pc = "done"]
  /\ UNCHANGED <<alertVars, runs>>

NextAlerts ==
  \/ \E cited \in BOOLEAN : CompleteRun(cited)
  \/ StartAlertChecks
  \/ \E k \in 1..(2 * MaxAlertChecks) : AlertFindFirst(k)
  \/ \E k \in 1..(2 * MaxAlertChecks) : AlertCreate(k)

SpecAlerts == InitAlerts /\ [][NextAlerts]_vars

\* C26: for the brand and probe at most one citation-lost alert and at most
\* one citation-gained alert is created within 24 hours.
C26_AtMostOneAlert ==
  op = "runAlertChecks" =>
    /\ Cardinality(AlertsOf(CitationLost, db.alerts)) <= 1
    /\ Cardinality(AlertsOf(CitationGained, db.alerts)) <= 1

====
